---- MODULE Spec2Model ----
(***************************************************************************)
(* Quote polling (App.tsx) and relay failover (services/fyers.ts) of the   *)
(* Nifty 50 dashboard.                                                     *)
(*                                                                         *)
(* Spec      : the App component: polling timer, fetch cycles in flight,   *)
(*             connect / retry / disconnect, the redirect auto-exchange.   *)
(* LiveSpec  : Spec with the fairness of the timer and of promise          *)
(*             settlement.                                                 *)
(* RelaySpec : calls of fetchQuotes, each walking PROXY_LIST through       *)
(*             fetchWithFailover.                                          *)
(***************************************************************************)
EXTENDS Integers, Sequences, FiniteSets, TLC

\* ------------------------------------------------------------------ bounds
MaxInFlight == 2     \* fetch cycles that may be pending at once
MaxTimers   == 2     \* interval ids the window hands out before reusing one
NumCreds    == 1     \* distinct live credentials the user may enter
NumSymbols  == 2     \* instruments of a batch
MaxWrites   == 2     \* login pages the modal may open

\* --------------------------------------------------------------- App state
VARIABLES
    phase,            \* "init" before the mount effect, "mounted", "unmounted"
    config,           \* useState config   (NoConfig = null)
    stocks,           \* useState stocks   (<<>> = [])
    isLoading,        \* useState isLoading
    error,            \* useState error    (NoError = null)
    lastUpdated,      \* useState lastUpdated (0 = null, else the batch it dates)
    marketStatus,     \* useState marketStatus
    isProcessingAuth, \* useState isProcessingAuth
    pollingRef,       \* useRef pollingRef.current (0 = null)
    timers,           \* intervals registered with the window: [id, cfg]
    inflight,         \* pending fetchData calls in start order: [id, cfg, overtaken]
    authState,        \* "idle" | "exchanging": the mount effect's await
    outage,           \* environment: fetches may reject while TRUE
    lastCompleted,    \* history: batch of the latest successful completion since the
                      \* display was last cleared
    lastOvertaken     \* history: that fetch was started before one that completed earlier

\* ------------------------------------------------------- fetchQuotes state
VARIABLES
    fq_pc,            \* "idle" | "demo" | "relay" | "done"
    fq_cfg,           \* the credential of the call
    fq_idx,           \* index in PROXY_LIST of the relay being awaited
    fq_lastError,     \* fetchWithFailover's lastError
    fq_attempts,      \* relays contacted by this call, in order
    fq_thrown,        \* errors thrown by the relays of this call, in order
    fq_received,      \* history: [relay, status] of every response this call received
    fw_outcome,       \* what fetchWithFailover returned or threw
    fq_outcome,       \* what fetchQuotes returned or threw
    fq_prevRelay      \* history: relay that answered the previous call (0 = none)

\* ------------------------------------------- authorization callback state
VARIABLES
    au_pc,            \* "load" before the mount effect, "exchanging" and "manual"
                      \* while a caller awaits exchangeAuthCode, "done" otherwise
    urlParams,        \* window.location.search: auth_code and error
    pendingAuth,      \* sessionStorage item 'fyers_pending_auth'
    au_callback,      \* history: what the mount effect found in the URL
    au_removed,       \* history: removeItem calls on the slot
    au_error,         \* the error handleAuthRedirect set
    au_processing,    \* isProcessingAuth as the callers of the exchange set it
    au_config,        \* the credential handed to handleConfigSave
    au_polling,       \* startPolling ran for the credential of au_config
    au_loaded         \* history: the URL and the slot of the page load

\* -------------------------------------------------- exchangeAuthCode state
VARIABLES
    ex_pc,            \* "idle" | "hash" | "relay" | "done"
    ex_caller,        \* "redirect" | "manual"
    ex_args,          \* authCode, appId, secretId of the call
    ex_idx,           \* index in PROXY_LIST of the relay being awaited
    ex_lastError,     \* fetchWithFailover's lastError
    ex_posts,         \* history: the POSTs this call issued, in order: [relay, body]
    ex_thrown,        \* errors thrown by the relays of this call, in order
    exw_outcome,      \* what fetchWithFailover returned or threw
    ex_outcome,       \* what exchangeAuthCode returned or threw
    ex_inflight       \* exchangeAuthCode calls whose caller still awaits them

\* ------------------------------------------------------ ConfigModal state
VARIABLES
    genAppId,         \* the App ID field of the generator tab
    genSecretId,      \* the Secret ID field
    redirectUri,      \* the Redirect URI field
    generatedUrl,     \* the login URL the effect derives from the fields
    manualAuthCode,   \* the pasted code or callback URL
    md_error,         \* the modal's own error text
    md_left,          \* history: the navigations and windows the modal opened,
                      \* each with the slot as it was at that moment
    md_writes,        \* history: the setItem calls on the slot, in order
    md_variant        \* which ConfigModal the page shows: "href" navigates the page
                      \* to the login URL, "window" opens it in a new window

\* -------------------------------------------------- generateAppIdHash state
VARIABLES
    h_in,             \* the arguments of two invocations
    h_out             \* what each invocation resolved to, <<>> before it ran

appVars == <<phase, config, stocks, isLoading, error, lastUpdated, marketStatus,
             isProcessingAuth, pollingRef, timers, inflight, authState, outage,
             lastCompleted, lastOvertaken>>
fqVars  == <<fq_pc, fq_cfg, fq_idx, fq_lastError, fq_attempts, fq_thrown, fq_received,
             fw_outcome, fq_outcome, fq_prevRelay>>
auVars  == <<au_pc, urlParams, pendingAuth, au_callback, au_removed, au_error,
             au_processing, au_config, au_polling, au_loaded>>
exVars  == <<ex_pc, ex_caller, ex_args, ex_idx, ex_lastError, ex_posts, ex_thrown,
             exw_outcome, ex_outcome, ex_inflight>>
mdVars  == <<genAppId, genSecretId, redirectUri, generatedUrl, manualAuthCode,
             md_error, md_left, md_writes, md_variant>>
hVars   == <<h_in, h_out>>
vars    == <<appVars, fqVars, auVars, exVars, mdVars, hVars>>

\* ------------------------------------------------------------------ values
NoConfig == [id |-> 0, isDemoMode |-> FALSE]
DemoConfig == [id |-> 0, isDemoMode |-> TRUE]
LiveConfigs == {[id |-> c, isDemoMode |-> FALSE] : c \in 1..NumCreds}
Configs == LiveConfigs \cup {DemoConfig}

NoError == "null"

\* Messages fetchQuotes rejects with, one per kind the banner can show
\* (fyers.ts 95 and 127).
QuoteErrors == {"Invalid Credentials or Token Expired",
                "Network Error: Could not connect to Fyers via Proxy. Please check your internet."}

FetchIds == 1..(MaxInFlight + 2)
TimerIds == 1..MaxTimers

\* The array one successful fetchQuotes resolves with: one record per
\* instrument, all of the same response.
Batch(id, cfg) ==
    [s \in 1..NumSymbols |-> [symbol |-> s, batch |-> id, cfg |-> cfg]]

InFlightIds == {inflight[i].id : i \in 1..Len(inflight)}
UsedFetchIds == InFlightIds \cup {stocks[i].batch : i \in 1..Len(stocks)}
                    \cup {lastUpdated}
                    \cup {lastCompleted[i].batch : i \in 1..Len(lastCompleted)}
FreshFetchId == CHOOSE f \in FetchIds \ UsedFetchIds :
                    \A g \in FetchIds \ UsedFetchIds : f <= g

ActiveTimerIds == {t.id : t \in timers}
FreeTimerIds == TimerIds \ (ActiveTimerIds \cup {pollingRef})
\* What setInterval returns: an id no registered interval has and that
\* pollingRef does not hold.
IsFreshTimerId(id) == id \in FreeTimerIds /\ \A j \in FreeTimerIds : id <= j

RemoveAt(s, i) == [j \in 1..(Len(s) - 1) |-> IF j < i THEN s[j] ELSE s[j + 1]]

\* window.clearInterval(id): cancels the interval with that id, if any.
clearInterval(ts, id) == {t \in ts : t.id # id}

\* ----------------------------------------------------------------- App.tsx
AppInit ==
    /\ phase = "init"
    /\ config = NoConfig
    /\ stocks = <<>>
    /\ isLoading = FALSE
    /\ error = NoError
    /\ lastUpdated = 0
    /\ marketStatus = "disconnected"
    /\ isProcessingAuth = FALSE
    /\ pollingRef = 0
    /\ timers = {}
    /\ inflight = <<>>
    /\ authState = "idle"
    /\ outage = FALSE
    /\ lastCompleted = <<>>
    /\ lastOvertaken = FALSE


\* fetchData issuing a second request for the same tick.
fetchDataStartTwice(cfg) ==
    inflight' = inflight \o <<[id |-> FreshFetchId, cfg |-> cfg, overtaken |-> FALSE],
                               [id |-> FreshFetchId, cfg |-> cfg, overtaken |-> FALSE]>>

\* fetchData(): the synchronous part, up to `await fetchQuotes(cfg)`.
fetchDataStart(cfg) ==
    inflight' = Append(inflight, [id |-> FreshFetchId, cfg |-> cfg, overtaken |-> FALSE])

\* startPolling without the clearInterval of line 107.
startPollingNoClear(cfg, id) ==
    /\ marketStatus' = "connecting"
    /\ isLoading' = TRUE
    /\ fetchDataStart(cfg)
    /\ timers' = timers \cup {[id |-> id, cfg |-> cfg]}
    /\ pollingRef' = id

\* startPolling(cfg): the whole function; id is what setInterval returns.
startPolling(cfg, id) ==
    /\ marketStatus' = "connecting"
    /\ isLoading' = TRUE
    /\ fetchDataStart(cfg)
    /\ timers' = (IF pollingRef # 0 THEN clearInterval(timers, pollingRef) ELSE timers)
                    \cup {[id |-> id, cfg |-> cfg]}
    /\ pollingRef' = id

\* handleConfigSave(newConfig)
handleConfigSaveBody(newConfig, id) ==
    /\ config' = newConfig
    /\ isProcessingAuth' = FALSE
    /\ startPolling(newConfig, id)

\* The mount effect: handleAuthRedirect up to its first await.
\* pending: "none" (slot empty), "valid", "invalid" (unparsable or a field missing).
handleAuthRedirect(authCode, errorParam, pending) ==
    /\ phase = "init"
    /\ phase' = "mounted"
    /\ IF errorParam
       THEN /\ error' = "Authorization Failed"
            /\ UNCHANGED <<isProcessingAuth, authState>>
       ELSE IF authCode
            THEN IF pending = "valid"
                 THEN /\ isProcessingAuth' = TRUE
                      /\ authState' = "exchanging"
                      /\ UNCHANGED error
                 ELSE /\ isProcessingAuth' = FALSE
                      /\ error' = (IF pending = "none"
                                   THEN "Session context lost"
                                   ELSE "Authentication Failed")
                      /\ UNCHANGED authState
            ELSE UNCHANGED <<error, isProcessingAuth, authState>>
    /\ UNCHANGED <<config, stocks, isLoading, lastUpdated, marketStatus, pollingRef,
                   timers, inflight, outage, lastCompleted, lastOvertaken>>
    /\ UNCHANGED <<fqVars, auVars, exVars, mdVars, hVars>>

\* exchangeAuthCode resolved inside handleAuthRedirect: handleConfigSave runs.
ExchangeResolve(c, id) ==
    /\ phase = "mounted"
    /\ authState = "exchanging"
    /\ Len(inflight) < MaxInFlight
    /\ IsFreshTimerId(id)
    /\ authState' = "idle"
    /\ handleConfigSaveBody(c, id)
    /\ UNCHANGED <<phase, stocks, error, lastUpdated, outage, lastCompleted, lastOvertaken>>
    /\ UNCHANGED <<fqVars, auVars, exVars, mdVars, hVars>>

\* exchangeAuthCode rejected inside handleAuthRedirect.
ExchangeReject ==
    /\ phase = "mounted"
    /\ authState = "exchanging"
    /\ authState' = "idle"
    /\ error' = "Authentication Failed"
    /\ isProcessingAuth' = FALSE
    /\ UNCHANGED <<phase, config, stocks, isLoading, lastUpdated, marketStatus, pollingRef,
                   timers, inflight, outage, lastCompleted, lastOvertaken>>
    /\ UNCHANGED <<fqVars, auVars, exVars, mdVars, hVars>>

\* ConfigModal onSave (manual token or demo): shown on the landing page only,
\* and replaced by the spinner while isProcessingAuth.
handleConfigSave(c, id) ==
    /\ phase = "mounted"
    /\ config = NoConfig
    /\ ~isProcessingAuth
    /\ Len(inflight) < MaxInFlight
    /\ IsFreshTimerId(id)
    /\ handleConfigSaveBody(c, id)
    /\ UNCHANGED <<phase, stocks, error, lastUpdated, authState, outage,
                   lastCompleted, lastOvertaken>>
    /\ UNCHANGED <<fqVars, auVars, exVars, mdVars, hVars>>

\* The Retry button of the error banner: startPolling(config).
Retry(id) ==
    /\ phase = "mounted"
    /\ config # NoConfig
    /\ error # NoError
    /\ Len(inflight) < MaxInFlight
    /\ IsFreshTimerId(id)
    /\ startPolling(config, id)
    /\ UNCHANGED <<phase, config, stocks, error, lastUpdated, isProcessingAuth, authState,
                   outage, lastCompleted, lastOvertaken>>
    /\ UNCHANGED <<fqVars, auVars, exVars, mdVars, hVars>>

\* One firing of a registered interval: fetchData() of that timer's closure.
Tick(t) ==
    /\ phase = "mounted"
    /\ t \in timers
    /\ Len(inflight) < MaxInFlight
    /\ fetchDataStart(t.cfg)
    /\ UNCHANGED <<phase, config, stocks, isLoading, error, lastUpdated, marketStatus,
                   isProcessingAuth, pollingRef, timers, authState, outage,
                   lastCompleted, lastOvertaken>>
    /\ UNCHANGED <<fqVars, auVars, exVars, mdVars, hVars>>

\* Fetches started before the i-th that are still pending when it completes.
MarkOvertaken(s, i) ==
    [j \in 1..Len(s) |-> IF j < i THEN [s[j] EXCEPT !.overtaken = TRUE] ELSE s[j]]

\* fetchData applying a result only when no later-started fetch has
\* completed before it (last started wins).
FetchSucceedLastStarted(i) ==
    /\ i \in 1..Len(inflight)
    /\ inflight' = RemoveAt(MarkOvertaken(inflight, i), i)
    /\ IF phase = "unmounted"
       THEN UNCHANGED <<stocks, lastUpdated, error, marketStatus, isLoading,
                        lastCompleted, lastOvertaken>>
       ELSE /\ stocks' = (IF inflight[i].overtaken THEN stocks
                          ELSE Batch(inflight[i].id, inflight[i].cfg))
            /\ lastUpdated' = inflight[i].id
            /\ error' = NoError
            /\ marketStatus' = "connected"
            /\ isLoading' = FALSE
            /\ lastCompleted' = Batch(inflight[i].id, inflight[i].cfg)
            /\ lastOvertaken' = inflight[i].overtaken
    /\ UNCHANGED <<phase, config, isProcessingAuth, pollingRef, timers, authState, outage>>
    /\ UNCHANGED <<fqVars, auVars, exVars, mdVars, hVars>>

\* fetchData without setError(null) and setMarketStatus('connected').
FetchSucceedKeepsError(i) ==
    /\ i \in 1..Len(inflight)
    /\ inflight' = RemoveAt(MarkOvertaken(inflight, i), i)
    /\ IF phase = "unmounted"
       THEN UNCHANGED <<stocks, lastUpdated, isLoading, lastCompleted, lastOvertaken>>
       ELSE /\ stocks' = Batch(inflight[i].id, inflight[i].cfg)
            /\ lastUpdated' = inflight[i].id
            /\ isLoading' = FALSE
            /\ lastCompleted' = Batch(inflight[i].id, inflight[i].cfg)
            /\ lastOvertaken' = inflight[i].overtaken
    /\ UNCHANGED <<error, marketStatus>>
    /\ UNCHANGED <<phase, config, isProcessingAuth, pollingRef, timers, authState, outage>>
    /\ UNCHANGED <<fqVars, auVars, exVars, mdVars, hVars>>

\* fetchData after `await fetchQuotes(cfg)` resolved: try body and finally.
FetchSucceed(i) ==
    /\ i \in 1..Len(inflight)
    /\ inflight' = RemoveAt(MarkOvertaken(inflight, i), i)
    /\ IF phase = "unmounted"
       THEN UNCHANGED <<stocks, lastUpdated, error, marketStatus, isLoading,
                        lastCompleted, lastOvertaken>>
       ELSE /\ stocks' = Batch(inflight[i].id, inflight[i].cfg)
            /\ lastUpdated' = inflight[i].id
            /\ error' = NoError
            /\ marketStatus' = "connected"
            /\ isLoading' = FALSE
            /\ lastCompleted' = Batch(inflight[i].id, inflight[i].cfg)
            /\ lastOvertaken' = inflight[i].overtaken
    /\ UNCHANGED <<phase, config, isProcessingAuth, pollingRef, timers, authState, outage>>
    /\ UNCHANGED <<fqVars, auVars, exVars, mdVars, hVars>>

\* fetchData whose catch also empties the table.
FetchFailClearsStocks(i, msg) ==
    /\ i \in 1..Len(inflight)
    /\ ~inflight[i].cfg.isDemoMode
    /\ outage
    /\ inflight' = RemoveAt(inflight, i)
    /\ IF phase = "unmounted"
       THEN UNCHANGED <<error, marketStatus, isLoading, stocks, lastUpdated>>
       ELSE /\ error' = msg
            /\ marketStatus' = "disconnected"
            /\ isLoading' = FALSE
            /\ stocks' = <<>>
            /\ lastUpdated' = 0
    /\ UNCHANGED <<phase, config, isProcessingAuth, pollingRef, timers,
                   authState, outage, lastCompleted, lastOvertaken>>
    /\ UNCHANGED <<fqVars, auVars, exVars, mdVars, hVars>>

\* fetchData whose catch also cancels the interval.
FetchFailStopsTimer(i, msg) ==
    /\ i \in 1..Len(inflight)
    /\ ~inflight[i].cfg.isDemoMode
    /\ outage
    /\ inflight' = RemoveAt(inflight, i)
    /\ timers' = clearInterval(timers, pollingRef)
    /\ IF phase = "unmounted"
       THEN UNCHANGED <<error, marketStatus, isLoading>>
       ELSE /\ error' = msg
            /\ marketStatus' = "disconnected"
            /\ isLoading' = FALSE
    /\ UNCHANGED <<phase, config, stocks, lastUpdated, isProcessingAuth, pollingRef,
                   authState, outage, lastCompleted, lastOvertaken>>
    /\ UNCHANGED <<fqVars, auVars, exVars, mdVars, hVars>>

\* fetchData after `await fetchQuotes(cfg)` rejected: catch body and finally.
\* The demo path of fetchQuotes never rejects.
FetchFail(i, msg) ==
    /\ i \in 1..Len(inflight)
    /\ ~inflight[i].cfg.isDemoMode
    /\ outage
    /\ inflight' = RemoveAt(inflight, i)
    /\ IF phase = "unmounted"
       THEN UNCHANGED <<error, marketStatus, isLoading>>
       ELSE /\ error' = msg
            /\ marketStatus' = "disconnected"
            /\ isLoading' = FALSE
    /\ UNCHANGED <<phase, config, stocks, lastUpdated, isProcessingAuth, pollingRef, timers,
                   authState, outage, lastCompleted, lastOvertaken>>
    /\ UNCHANGED <<fqVars, auVars, exVars, mdVars, hVars>>

\* handleDisconnect without the clearInterval of line 137.
DisconnectEffectNoClear(s) ==
    [s EXCEPT !.config = NoConfig,
              !.stocks = <<>>,
              !.marketStatus = "disconnected",
              !.error = NoError]

\* handleDisconnect as a function of the state it writes.
DisconnectEffect(s) ==
    [s EXCEPT !.timers = IF s.pollingRef # 0 THEN clearInterval(s.timers, s.pollingRef)
                         ELSE s.timers,
              !.config = NoConfig,
              !.stocks = <<>>,
              !.marketStatus = "disconnected",
              !.error = NoError]

AppState == [timers |-> timers, pollingRef |-> pollingRef, config |-> config,
             stocks |-> stocks, marketStatus |-> marketStatus, error |-> error,
             isLoading |-> isLoading, lastUpdated |-> lastUpdated,
             isProcessingAuth |-> isProcessingAuth]

\* The Disconnect button of the dashboard header.
handleDisconnect ==
    /\ phase = "mounted"
    /\ config # NoConfig
    /\ timers' = DisconnectEffect(AppState).timers
    /\ config' = DisconnectEffect(AppState).config
    /\ stocks' = DisconnectEffect(AppState).stocks
    /\ marketStatus' = DisconnectEffect(AppState).marketStatus
    /\ error' = DisconnectEffect(AppState).error
    /\ lastCompleted' = <<>>
    /\ lastOvertaken' = FALSE
    /\ UNCHANGED <<phase, isLoading, lastUpdated, isProcessingAuth, pollingRef, inflight,
                   authState, outage>>
    /\ UNCHANGED <<fqVars, auVars, exVars, mdVars, hVars>>

\* The cleanup of the unmount effect.
Unmount ==
    /\ phase = "mounted"
    /\ phase' = "unmounted"
    /\ timers' = (IF pollingRef # 0 THEN clearInterval(timers, pollingRef) ELSE timers)
    /\ UNCHANGED <<config, stocks, isLoading, error, lastUpdated, marketStatus,
                   isProcessingAuth, pollingRef, inflight, authState, outage,
                   lastCompleted, lastOvertaken>>
    /\ UNCHANGED <<fqVars, auVars, exVars, mdVars, hVars>>

\* Environment: the provider or the relays start or stop failing.
OutageBegins ==
    /\ ~outage
    /\ outage' = TRUE
    /\ UNCHANGED <<phase, config, stocks, isLoading, error, lastUpdated, marketStatus,
                   isProcessingAuth, pollingRef, timers, inflight, authState,
                   lastCompleted, lastOvertaken>>
    /\ UNCHANGED <<fqVars, auVars, exVars, mdVars, hVars>>

OutageEnds ==
    /\ outage
    /\ outage' = FALSE
    /\ UNCHANGED <<phase, config, stocks, isLoading, error, lastUpdated, marketStatus,
                   isProcessingAuth, pollingRef, timers, inflight, authState,
                   lastCompleted, lastOvertaken>>
    /\ UNCHANGED <<fqVars, auVars, exVars, mdVars, hVars>>

\* -------------------------------------------------------- services/fyers.ts
MaxQuotes == 2       \* entries of a provider d array

PROXY_LIST == <<[base |-> "https://corsproxy.io/?", needsEncoding |-> TRUE],
                [base |-> "https://thingproxy.freeboard.io/fetch/", needsEncoding |-> FALSE],
                [base |-> "https://api.codetabs.com/v1/proxy?quest=", needsEncoding |-> TRUE]>>
NumRelays == Len(PROXY_LIST)

\* The Instrument Reference table (two of its fifty rows).
NIFTY_50_SYMBOLS == <<[symbol |-> "NSE:SBIN-EQ", name |-> "State Bank of India"],
                      [symbol |-> "NSE:TCS-EQ", name |-> "Tata Consultancy Services"]>>

\* What a rejected fetch() carries: a TypeError or DOMException with its message.
TransportMessages == {"Failed to fetch", "Load failed", ""}

Statuses == {200, 401, 403, 404, 500}

\* The v of a provider quote: every field present, with values that differ
\* pairwise; or most fields absent and one present with the value 0.
FullV == [lp |-> <<7>>, ch |-> <<-3>>, chp |-> <<2>>, o |-> <<6>>, h |-> <<9>>,
          l |-> <<5>>, v |-> <<100>>]
SparseV == [lp |-> <<>>, ch |-> <<0>>, chp |-> <<>>, o |-> <<>>, h |-> <<>>,
            l |-> <<>>, v |-> <<>>]

\* Provider quotes: a symbol of the table or one unknown to it, with its v;
\* and an entry that carries no v at all.
Quotes ==
    [n : {"NSE:SBIN-EQ", "NSE:OTHER-EQ"}, hasV : {TRUE}, v : {FullV, SparseV}]
    \cup {[n |-> "NSE:SBIN-EQ", hasV |-> FALSE, v |-> SparseV]}
SeqsUpTo(S, n) == UNION {[1..k -> S] : k \in 0..n}

NoBody == [json |-> FALSE, s |-> "", hasD |-> FALSE, d |-> <<>>, message |-> ""]
\* Response bodies: not JSON; an envelope with s, an optional d, an optional message.
Bodies ==
    {NoBody}
    \cup {[json |-> TRUE, s |-> "ok", hasD |-> TRUE, d |-> d, message |-> ""] :
              d \in SeqsUpTo(Quotes, MaxQuotes)}
    \cup {[json |-> TRUE, s |-> st, hasD |-> FALSE, d |-> <<>>, message |-> m] :
              st \in {"ok", "error"}, m \in {"", "Rate limit exceeded", "Failed to fetch"}}

NoResponse == [kind |-> "none", relay |-> 0, status |-> 0, body |-> NoBody, message |-> ""]
NoResult == [kind |-> "none", data |-> <<>>, message |-> ""]
Undefined == [thrown |-> FALSE, message |-> ""]

\* x || 0 of the mapping.
OrZero(x) == IF x = <<>> THEN 0 ELSE x[1]

\* m || fallback for a message string.
OrElse(m, fallback) == IF m = "" THEN fallback ELSE m

\* NIFTY_50_SYMBOLS.find(s => s.symbol === n)?.name || n
FriendlyName(n) ==
    IF \E i \in 1..Len(NIFTY_50_SYMBOLS) : NIFTY_50_SYMBOLS[i].symbol = n
    THEN NIFTY_50_SYMBOLS[CHOOSE i \in 1..Len(NIFTY_50_SYMBOLS) :
                              /\ NIFTY_50_SYMBOLS[i].symbol = n
                              /\ \A j \in 1..(i - 1) : NIFTY_50_SYMBOLS[j].symbol # n].name
    ELSE n

\* A callback that reads high from l and low from h.
MapQuoteSwapsHighLow(quote) ==
    [symbol |-> quote.n,
     name |-> FriendlyName(quote.n),
     ltp |-> OrZero(quote.v.lp),
     change |-> OrZero(quote.v.ch),
     changePercent |-> OrZero(quote.v.chp),
     open |-> OrZero(quote.v.o),
     high |-> OrZero(quote.v.l),
     low |-> OrZero(quote.v.h),
     volume |-> OrZero(quote.v.v)]

\* The callback of data.d.map: one Stock of one quote.
MapQuote(quote) ==
    [symbol |-> quote.n,
     name |-> FriendlyName(quote.n),
     ltp |-> OrZero(quote.v.lp),
     change |-> OrZero(quote.v.ch),
     changePercent |-> OrZero(quote.v.chp),
     open |-> OrZero(quote.v.o),
     high |-> OrZero(quote.v.h),
     low |-> OrZero(quote.v.l),
     volume |-> OrZero(quote.v.v)]

\* A map that keeps the first entry of each symbol of the table only.
MapQuotesKnownOnce(d) ==
    LET keep(i) == /\ \E r \in 1..Len(NIFTY_50_SYMBOLS) : NIFTY_50_SYMBOLS[r].symbol = d[i].n
                   /\ \A j \in 1..(i - 1) : d[j].n # d[i].n
        kept == {i \in 1..Len(d) : keep(i)}
        nth[k \in 1..Cardinality(kept)] ==
            IF k = 1 THEN CHOOSE i \in kept : \A j \in kept : i <= j
            ELSE CHOOSE i \in kept : i > nth[k - 1] /\ \A j \in kept : j > nth[k - 1] => i <= j
    IN  [k \in 1..Cardinality(kept) |-> MapQuote(d[nth[k]])]

\* data.d.map(quote => ...)
MapQuotes(d) == [i \in 1..Len(d) |-> MapQuote(d[i])]

\* A body that is a FyersResponse: JSON, s "ok", d an array of FyersQuoteData.
ValidEnvelope(body) ==
    /\ body.json
    /\ body.s = "ok"
    /\ body.hasD
    /\ \A i \in 1..Len(body.d) : body.d[i].hasV

\* quote.v.lp of an entry without v: the TypeError that ends the map.
MapThrows(d) == \E i \in 1..Len(d) : ~d[i].hasV

Abs(x) == IF x < 0 THEN -x ELSE x

\* parseFloat(x.toFixed(2)), x in thousandths, the result in hundredths.
toFixed2(x) == IF x < 0 THEN -((Abs(x) + 5) \div 10) ELSE (x + 5) \div 10

\* The Math.random() draws of one row: basePrice in [100, 3100) and
\* change in [-25, 25), both in thousandths, and the volume.
DemoDraws == [basePrice : {100000, 3099999}, change : {-25000, -4, 24999},
              volume : {0, 999999}]

\* A callback that bounds the envelope by the signed change.
DemoStockSignedEnvelope(item, r) ==
    [symbol |-> item.symbol,
     name |-> item.name,
     ltp |-> toFixed2(r.basePrice + r.change),
     change |-> toFixed2(r.change),
     changePercent |-> toFixed2((r.change * 1000) \div (r.basePrice \div 100)),
     open |-> toFixed2(r.basePrice),
     high |-> toFixed2(r.basePrice + r.change + 10000),
     low |-> toFixed2(r.basePrice - r.change - 10000),
     volume |-> r.volume]

\* The callback of NIFTY_50_SYMBOLS.map in generateDemoData.
DemoStock(item, r) ==
    [symbol |-> item.symbol,
     name |-> item.name,
     ltp |-> toFixed2(r.basePrice + r.change),
     change |-> toFixed2(r.change),
     changePercent |-> toFixed2((r.change * 1000) \div (r.basePrice \div 100)),
     open |-> toFixed2(r.basePrice),
     high |-> toFixed2(r.basePrice + Abs(r.change) + 10000),
     low |-> toFixed2(r.basePrice - Abs(r.change) - 10000),
     volume |-> r.volume]

\* generateDemoData(): one record per table row, draws[i] the draws of row i.
generateDemoData(draws) ==
    [i \in 1..Len(NIFTY_50_SYMBOLS) |-> DemoStock(NIFTY_50_SYMBOLS[i], draws[i])]

ApiError(status) ==
    CASE status = 404 -> "API Error: 404"
      [] status = 500 -> "API Error: 500"
      [] OTHER -> "API Error"

\* The catch block of fetchQuotes: the error it rethrows for a caught message.
QuotesCatch(message) ==
    [kind |-> "error", data |-> <<>>,
     message |-> IF message = "Failed to fetch"
                 THEN "Network Error: Could not connect to Fyers via Proxy. Please check your internet."
                 ELSE OrElse(message, "Failed to connect to Fyers API")]

\* A fetchQuotes without the 401 and 403 cases of its status check.
QuotesFromResponseNoCredentialCase(status, body) ==
    IF ~(status \in 200..299)
    THEN QuotesCatch(ApiError(status))
    ELSE IF ~body.json
    THEN QuotesCatch("Unexpected token < in JSON at position 0")
    ELSE IF body.s # "ok" \/ ~body.hasD
    THEN QuotesCatch(OrElse(body.message, "Failed to fetch quotes"))
    ELSE IF MapThrows(body.d)
    THEN QuotesCatch("Cannot read properties of undefined (reading 'lp')")
    ELSE [kind |-> "ok", data |-> MapQuotes(body.d), message |-> ""]

\* A fetchQuotes whose map skips the entries it cannot read.
QuotesFromResponseSkipsBad(status, body) ==
    IF ~(status \in 200..299)
    THEN QuotesCatch(IF status = 401 THEN "Invalid Credentials or Token Expired"
                     ELSE IF status = 403 THEN "Access Forbidden (Check Permissions)"
                     ELSE ApiError(status))
    ELSE IF ~body.json
    THEN QuotesCatch("Unexpected token < in JSON at position 0")
    ELSE IF body.s # "ok" \/ ~body.hasD
    THEN QuotesCatch(OrElse(body.message, "Failed to fetch quotes"))
    ELSE [kind |-> "ok", data |-> MapQuotes(SelectSeq(body.d, LAMBDA q : q.hasV)),
          message |-> ""]

\* fetchQuotes from the response fetchWithFailover returned to its result.
QuotesFromResponse(status, body) ==
    IF ~(status \in 200..299)
    THEN QuotesCatch(IF status = 401 THEN "Invalid Credentials or Token Expired"
                     ELSE IF status = 403 THEN "Access Forbidden (Check Permissions)"
                     ELSE ApiError(status))
    ELSE IF ~body.json
    THEN QuotesCatch("Unexpected token < in JSON at position 0")
    ELSE IF body.s # "ok" \/ ~body.hasD
    THEN QuotesCatch(OrElse(body.message, "Failed to fetch quotes"))
    ELSE IF MapThrows(body.d)
    THEN QuotesCatch("Cannot read properties of undefined (reading 'lp')")
    ELSE [kind |-> "ok", data |-> MapQuotes(body.d), message |-> ""]

FqIdle ==
    /\ fq_pc = "idle"
    /\ fq_cfg = NoConfig
    /\ fq_idx = 0
    /\ fq_lastError = Undefined
    /\ fq_attempts = <<>>
    /\ fq_thrown = <<>>
    /\ fq_received = <<>>
    /\ fw_outcome = NoResponse
    /\ fq_outcome = NoResult
    /\ fq_prevRelay = 0

\* ------------------------------------------- exchangeAuthCode and its callers
\* Text the user or the provider supplies is a sequence of characters, <<>> the
\* empty text; an optional text is <<>> when absent and <<text>> when present.
APP1 == <<"A", "P", "P", "1">>
APP2 == <<"A", "P", "P", "2">>
SECRET1 == <<"S", "E", "C", "R", "E", "T", "1">>
SECRET2 == <<"S", "E", "C", "R", "E", "T", "2">>
CODE1 == <<"c", "1">>
CODE2 == <<"c", "2">>
DENIED == <<"d", "e", "n", "i", "e", "d">>
ORIGIN == <<"h", "t", "t", "p", ":", "/", "/", "h">>

\* A test that takes a parameter for set when it is present, even when empty.
Present(opt) == opt # <<>>

\* JavaScript truthiness of what URLSearchParams.get returns: null and '' are
\* both falsy.
Truthy(opt) == opt # <<>> /\ opt[1] # <<>>

\* String.prototype.trim, for the one whitespace character the texts contain.
RECURSIVE TrimStart(_)
TrimStart(text) ==
    IF text # <<>> /\ Head(text) = " " THEN TrimStart(Tail(text)) ELSE text

RECURSIVE TrimEnd(_)
TrimEnd(text) ==
    IF text # <<>> /\ text[Len(text)] = " "
    THEN TrimEnd(SubSeq(text, 1, Len(text) - 1))
    ELSE text

Trim(text) == TrimEnd(TrimStart(text))

\* window.location.search of the page load: auth_code and error, each absent,
\* present and empty, or present with a value.
UrlParams == [auth_code : {<<>>, <<<<>>>>, <<CODE1>>}, error : {<<>>, <<<<>>>>, <<DENIED>>}]
CleanUrl == [auth_code |-> <<>>, error |-> <<>>]

\* sessionStorage 'fyers_pending_auth': absent, the JSON the modal wrote, or
\* text JSON.parse rejects.
PendingItem(appId, secretId, uri) ==
    [present |-> TRUE, parsable |-> TRUE, appId |-> appId, secretId |-> secretId,
     redirectUri |-> uri]
NoItem == [present |-> FALSE, parsable |-> FALSE, appId |-> <<>>, secretId |-> <<>>,
           redirectUri |-> <<>>]
Unparsable == [NoItem EXCEPT !.present = TRUE]
PendingItems ==
    {NoItem, Unparsable, PendingItem(APP1, SECRET1, ORIGIN), PendingItem(APP1, <<>>, ORIGIN)}

NoArgs == [authCode |-> <<>>, appId |-> <<>>, secretId |-> <<>>]
NoAuthConfig == [appId |-> <<>>, accessToken |-> <<>>, saved |-> FALSE]
NoAuthError == [prefix |-> "", detail |-> "", param |-> <<>>]

\* Bodies a relay may hand back for the POST: not JSON, s "ok" with or without
\* an access_token, or another s with or without a message.
AuthBodies ==
    {[json |-> FALSE, s |-> "", access_token |-> <<>>, message |-> ""]}
    \cup {[json |-> TRUE, s |-> "ok", access_token |-> t, message |-> ""] :
              t \in {<<>>, <<"tok_xyz">>}}
    \cup {[json |-> TRUE, s |-> "error", access_token |-> <<>>, message |-> m] :
              m \in {"", "invalid auth code", "Failed to fetch"}}

NoAuthResponse == [kind |-> "none", relay |-> 0,
                   body |-> [json |-> FALSE, s |-> "", access_token |-> <<>>, message |-> ""],
                   message |-> ""]
NoToken == [kind |-> "none", token |-> <<>>, message |-> ""]

\* -------------------------------------------------------- utils/crypto.ts
\* Text is a sequence of characters. TextEncoder.encode gives one byte per
\* character of the ASCII range, the only characters the ids are drawn from.
TextEncode(text) ==
    LET CharCode ==
        (" " :> 32) @@ ("1" :> 49) @@ ("2" :> 50) @@ (":" :> 58) @@ ("A" :> 65) @@
        ("C" :> 67) @@ ("E" :> 69) @@ ("P" :> 80) @@ ("R" :> 82) @@ ("S" :> 83) @@
        ("T" :> 84)
    IN  [i \in 1..Len(text) |-> CharCode[text[i]]]

\* SHA-256 (FIPS 180-4) over 32-bit words kept as <<high, low>> 16-bit halves.
RECURSIVE Xor16(_, _, _)
Xor16(a, b, n) ==
    IF n = 0 THEN 0
    ELSE (((a % 2) + (b % 2)) % 2) + 2 * Xor16(a \div 2, b \div 2, n - 1)

RECURSIVE And16(_, _, _)
And16(a, b, n) ==
    IF n = 0 THEN 0
    ELSE ((a % 2) * (b % 2)) + 2 * And16(a \div 2, b \div 2, n - 1)

WXor(x, y) == <<Xor16(x[1], y[1], 16), Xor16(x[2], y[2], 16)>>
WAnd(x, y) == <<And16(x[1], y[1], 16), And16(x[2], y[2], 16)>>
WAdd(x, y) ==
    LET low == x[2] + y[2]
    IN  <<(x[1] + y[1] + (low \div 65536)) % 65536, low % 65536>>

RECURSIVE Rotr(_, _)
Rotr(x, n) ==
    IF n >= 16 THEN Rotr(<<x[2], x[1]>>, n - 16)
    ELSE <<(x[1] \div (2^n)) + ((x[2] % (2^n)) * (2^(16 - n))),
           (x[2] \div (2^n)) + ((x[1] % (2^n)) * (2^(16 - n)))>>

Shr(x, n) ==
    <<x[1] \div (2^n), (x[2] \div (2^n)) + ((x[1] % (2^n)) * (2^(16 - n)))>>

K ==
    <<<<17034, 12184>>, <<28983, 17553>>, <<46528, 64463>>, <<59829, 56229>>,
      <<14678, 49755>>, <<23025, 4593>>, <<37439, 33444>>, <<43804, 24277>>,
      <<55303, 43672>>, <<4739, 23297>>, <<9265, 34238>>, <<21772, 32195>>,
      <<29374, 23924>>, <<32990, 45566>>, <<39900, 1703>>, <<49563, 61812>>,
      <<58523, 27073>>, <<61374, 18310>>, <<4033, 40390>>, <<9228, 41420>>,
      <<11753, 11375>>, <<19060, 33962>>, <<23728, 43484>>, <<30457, 35034>>,
      <<38974, 20818>>, <<43057, 50797>>, <<45059, 10184>>, <<48985, 32711>>,
      <<50912, 3059>>, <<54695, 37191>>, <<1738, 25425>>, <<5161, 10599>>,
      <<10167, 2693>>, <<11803, 8504>>, <<19756, 28156>>, <<21304, 3347>>,
      <<25866, 29524>>, <<30314, 2747>>, <<33218, 51502>>, <<37490, 11397>>,
      <<41663, 59553>>, <<43034, 26187>>, <<49739, 35696>>, <<51052, 20899>>,
      <<53650, 59417>>, <<54937, 1572>>, <<62478, 13701>>, <<4202, 41072>>,
      <<6564, 49430>>, <<7735, 27656>>, <<10056, 30540>>, <<13488, 48309>>,
      <<14620, 3251>>, <<20184, 43594>>, <<23452, 51791>>, <<26670, 28659>>,
      <<29839, 33518>>, <<30885, 25455>>, <<33992, 30740>>, <<36039, 520>>,
      <<37054, 65530>>, <<42064, 27883>>, <<48889, 41975>>, <<50801, 30962>>>>

H0 ==
    <<<<27145, 58983>>, <<47975, 44677>>, <<15470, 62322>>, <<42319, 62778>>,
      <<20750, 21119>>, <<39685, 26764>>, <<8067, 55723>>, <<23520, 52505>>>>

RECURSIVE Schedule(_)
Schedule(w) ==
    IF Len(w) = 64 THEN w
    ELSE LET t == Len(w) + 1
             SmallSigma0(x) == WXor(WXor(Rotr(x, 7), Rotr(x, 18)), Shr(x, 3))
             SmallSigma1(x) == WXor(WXor(Rotr(x, 17), Rotr(x, 19)), Shr(x, 10))
         IN  Schedule(Append(w, WAdd(WAdd(SmallSigma1(w[t - 2]), w[t - 7]),
                                     WAdd(SmallSigma0(w[t - 15]), w[t - 16]))))

\* One round on the working variables s = <<a, b, c, d, e, f, g, h>>.
Round(s, k, w) ==
    LET BigSigma0(x) == WXor(WXor(Rotr(x, 2), Rotr(x, 13)), Rotr(x, 22))
        BigSigma1(x) == WXor(WXor(Rotr(x, 6), Rotr(x, 11)), Rotr(x, 25))
        WNot(x) == <<65535 - x[1], 65535 - x[2]>>
        Ch(e, f, g) == WXor(WAnd(e, f), WAnd(WNot(e), g))
        Maj(a, b, c) == WXor(WXor(WAnd(a, b), WAnd(a, c)), WAnd(b, c))
        t1 == WAdd(WAdd(WAdd(s[8], BigSigma1(s[5])), WAdd(Ch(s[5], s[6], s[7]), k)), w)
        t2 == WAdd(BigSigma0(s[1]), Maj(s[1], s[2], s[3]))
    IN  <<WAdd(t1, t2), s[1], s[2], s[3], WAdd(s[4], t1), s[5], s[6], s[7]>>

\* The working variables before round 1 and after each of the 64 rounds.
RECURSIVE Rounds(_, _)
Rounds(states, w) ==
    IF Len(states) = 65 THEN states
    ELSE LET t == Len(states)
         IN  Rounds(Append(states, Round(states[t], K[t], w[t])), w)

\* crypto.subtle.digest('SHA-256', msgBuffer): the 32 bytes of the digest of
\* a message of at most 55 bytes, which pads to one block: the bytes, 0x80,
\* zeros, and the bit length in the last two bytes.
Digest(bytes) ==
    LET block == [i \in 1..64 |->
                     IF i <= Len(bytes) THEN bytes[i]
                     ELSE IF i = Len(bytes) + 1 THEN 128
                     ELSE IF i = 63 THEN (8 * Len(bytes)) \div 256
                     ELSE IF i = 64 THEN (8 * Len(bytes)) % 256
                     ELSE 0]
        words == [t \in 1..16 |-> <<(block[(4 * t) - 3] * 256) + block[(4 * t) - 2],
                                    (block[(4 * t) - 1] * 256) + block[4 * t]>>]
        s == Rounds(<<H0>>, Schedule(words))[65]
        h == [i \in 1..8 |-> WAdd(H0[i], s[i])]
    IN  [i \in 1..32 |->
            LET word == h[(i + 3) \div 4]
                half == IF ((i - 1) % 4) < 2 THEN word[1] ELSE word[2]
            IN  IF (i % 2) = 1 THEN half \div 256 ELSE half % 256]

\* hashArray.map(b => b.toString(16).padStart(2, '0')).join('')
ToHex(bytes) ==
    LET HexDigits == <<"0", "1", "2", "3", "4", "5", "6", "7",
                       "8", "9", "a", "b", "c", "d", "e", "f">>
    IN  [i \in 1..(2 * Len(bytes)) |->
            IF (i % 2) = 1 THEN HexDigits[(bytes[(i + 1) \div 2] \div 16) + 1]
            ELSE HexDigits[(bytes[i \div 2] % 16) + 1]]

\* A hasher that leaves the secret out of the text it digests.
generateAppIdHashOfAppId(appId, secretId) ==
    ToHex(Digest(TextEncode(appId \o <<":">>)))

\* generateAppIdHash: the hex digest of `${appId}:${secretId}`.
generateAppIdHash(appId, secretId) ==
    ToHex(Digest(TextEncode(appId \o <<":">> \o secretId)))

\* const appIdHash = await generateAppIdHash(appId, secretId), for every pair of
\* texts an exchange or an invocation is given.
HashedIds == {<<>>, APP1, APP2}
HashedSecrets == {<<>>, SECRET1, SECRET2}
appIdHashes ==
    {<<p, generateAppIdHash(p[1], p[2])>> : p \in HashedIds \X HashedSecrets}
appIdHash(appId, secretId) ==
    (CHOOSE pair \in appIdHashes : pair[1] = <<appId, secretId>>)[2]

\* The body of the POST.
Payload(authCode, appId, secretId) ==
    [grant_type |-> "authorization_code",
     appIdHash |-> appIdHash(appId, secretId),
     code |-> authCode,
     client_id |-> appId]

\* The catch of exchangeAuthCode: the error it rethrows for a caught message.
ExchangeCatch(message) ==
    [kind |-> "error", token |-> <<>>,
     message |-> IF message = "Failed to fetch"
                 THEN "Network Error during Auth. Please check your connection."
                 ELSE OrElse(message, "Failed to exchange auth code")]

\* exchangeAuthCode from the response fetchWithFailover returned to its result.
ExchangeFromResponse(body) ==
    IF ~body.json
    THEN ExchangeCatch("Unexpected token < in JSON at position 0")
    ELSE IF body.s # "ok"
    THEN ExchangeCatch(OrElse(body.message, "Failed to validate auth code"))
    ELSE [kind |-> "token", token |-> body.access_token, message |-> ""]

\* ---------------------------------------------------------------- ConfigModal
\* The login URL as its parameters; the state parameter, a timestamp, is left
\* out. <<>> is the empty text the effect sets when a field is empty.
NoUrl == <<>>
LoginUrl(appId, uri) ==
    IF appId # <<>> /\ uri # <<>>
    THEN <<[client_id |-> Trim(appId), redirect_uri |-> Trim(uri)]>>
    ELSE NoUrl

StartsWith(text, prefix) ==
    Len(text) >= Len(prefix) /\ SubSeq(text, 1, Len(prefix)) = prefix

Includes(text, part) ==
    \E i \in 1..(Len(text) + 1) :
        i + Len(part) - 1 <= Len(text) /\ SubSeq(text, i, i + Len(part) - 1) = part

\* The text after the first occurrence of a character, <<>> when it is absent.
After(text, ch) ==
    IF \E i \in 1..Len(text) : text[i] = ch
    THEN LET i == CHOOSE i \in 1..Len(text) :
                      text[i] = ch /\ \A j \in 1..(i - 1) : text[j] # ch
         IN  SubSeq(text, i + 1, Len(text))
    ELSE <<>>

\* The text up to the first occurrence of a character, all of it when absent.
Before(text, ch) ==
    IF \E i \in 1..Len(text) : text[i] = ch
    THEN LET i == CHOOSE i \in 1..Len(text) :
                      text[i] = ch /\ \A j \in 1..(i - 1) : text[j] # ch
         IN  SubSeq(text, 1, i - 1)
    ELSE text

AuthCodeEq == <<"a", "u", "t", "h", "_", "c", "o", "d", "e", "=">>

\* searchParams.get('auth_code') on a query: the value of the first parameter
\* named auth_code, <<>> (null) when there is none.
RECURSIVE SearchParamsGet(_)
SearchParamsGet(query) ==
    IF query = <<>> THEN <<>>
    ELSE IF StartsWith(Before(query, "&"), AuthCodeEq)
    THEN <<SubSeq(Before(query, "&"), Len(AuthCodeEq) + 1, Len(Before(query, "&")))>>
    ELSE SearchParamsGet(After(query, "&"))

\* The code handleManualCodeExchange submits for a pasted text: the text
\* trimmed, or the auth_code parameter of the callback URL it holds. The
\* pasted texts hold no escapes and every one that starts with http is a URL
\* the parser accepts.
FinalCode(text) ==
    LET codeToUse == Trim(text)
        query == IF StartsWith(codeToUse, <<"h", "t", "t", "p">>) THEN After(codeToUse, "?")
                 ELSE codeToUse
        extracted == SearchParamsGet(query)
    IN  IF Includes(codeToUse, AuthCodeEq) /\ Truthy(extracted)
        THEN extracted[1]
        ELSE codeToUse

\* What the user may leave in the modal's fields.
AppIdTexts == {<<>>, <<" ">>, APP1, <<" ">> \o APP2 \o <<" ">>}
SecretTexts == {<<>>, <<" ">>, SECRET1}
UriTexts == {<<>>, <<" ">>, ORIGIN}
ModalIdle ==
    /\ genAppId = <<>>
    /\ genSecretId = <<>>
    /\ redirectUri = ORIGIN
    /\ generatedUrl = NoUrl
    /\ manualAuthCode = <<>>
    /\ md_error = ""
    /\ md_left = <<>>
    /\ md_writes = <<>>
    /\ md_variant = "window"

HashIdle ==
    /\ h_in = [k \in 1..2 |-> <<<<>>, <<>>>>]
    /\ h_out = [k \in 1..2 |-> <<>>]

ExIdle ==
    /\ ex_pc = "idle"
    /\ ex_caller = "none"
    /\ ex_args = NoArgs
    /\ ex_idx = 0
    /\ ex_lastError = Undefined
    /\ ex_posts = <<>>
    /\ ex_thrown = <<>>
    /\ exw_outcome = NoAuthResponse
    /\ ex_outcome = NoToken
    /\ ex_inflight = 0

\* The page before the mount effects ran, for one URL and one slot content.
AuthLoaded(url, item) ==
    /\ au_pc = "load"
    /\ urlParams = url
    /\ pendingAuth = item
    /\ au_callback = "none"
    /\ au_removed = 0
    /\ au_error = NoAuthError
    /\ au_processing = FALSE
    /\ au_config = NoAuthConfig
    /\ au_polling = FALSE
    /\ au_loaded = [url |-> url, item |-> item]
    /\ ExIdle

Init ==
    /\ AppInit
    /\ FqIdle
    /\ AuthLoaded(CleanUrl, NoItem)
    /\ ModalIdle
    /\ HashIdle

Next ==
    \/ \E a \in BOOLEAN, e \in BOOLEAN, p \in {"none", "valid", "invalid"} :
           handleAuthRedirect(a, e, p)
    \/ \E c \in LiveConfigs, id \in TimerIds : ExchangeResolve(c, id)
    \/ ExchangeReject
    \/ \E c \in Configs, id \in TimerIds : handleConfigSave(c, id)
    \/ \E id \in TimerIds : Retry(id)
    \/ \E t \in timers : Tick(t)
    \/ \E i \in 1..MaxInFlight : FetchSucceed(i)
    \/ \E i \in 1..MaxInFlight, m \in QuoteErrors : FetchFail(i, m)
    \/ handleDisconnect
    \/ Unmount
    \/ OutageBegins
    \/ OutageEnds

Spec == Init /\ [][Next]_vars

\* Every fetch settles and the interval keeps firing: the browser's timer
\* and the settlement of the promise fetchQuotes returns.
Settle == (\E i \in 1..MaxInFlight : FetchSucceed(i))
              \/ (\E i \in 1..MaxInFlight, m \in QuoteErrors : FetchFail(i, m))

LiveSpec == Init /\ [][Next]_vars
                /\ WF_vars(\E t \in timers : Tick(t))
                /\ WF_vars(Settle)

\* ------------------------------------------------------------------ claims

\* C1: in every reachable state at most one polling timer is registered,
\* whatever sequence of connect, Retry, disconnect and reconnect led there.
C1_AtMostOneTimer == Cardinality(timers) <= 1

\* A reconnect under a different credential while a fetch of the old
\* session is still pending: one timer, the new credential's.
C1_Witness ==
    /\ config # NoConfig
    /\ timers = {[id |-> pollingRef, cfg |-> config]}
    /\ \E i \in 1..Len(inflight) : inflight[i].cfg # config

\* C2 as stated: at most one fetch cycle is in flight at any time.
C2_AtMostOneInFlight == Len(inflight) <= 1

\* C2 as amended: a tick of the timer starts exactly one fetch cycle whether
\* or not an earlier one is pending, and no step starts more than one, so
\* cycles overlap when a fetch outlasts the interval.
C2_OneFetchPerTick ==
    [][/\ Len(inflight') <= Len(inflight) + 1
       /\ (\E t \in timers : Tick(t)) => Len(inflight') = Len(inflight) + 1]_vars

\* Two cycles of the same session pending at once.
C2_Witness ==
    /\ Len(inflight) >= 2
    /\ \A i \in 1..Len(inflight) : inflight[i].cfg = config
    /\ Cardinality(timers) = 1

\* C3: the displayed snapshot is the whole result of the fetch that
\* completed last (or empty while none has completed since the display was
\* cleared), also when completions arrive out of start order; it is never a
\* mixture of two results.
C3_LastCompletedWins ==
    /\ stocks = lastCompleted
    /\ \A i, j \in 1..Len(stocks) : stocks[i].batch = stocks[j].batch
    /\ stocks # <<>> => Len(stocks) = NumSymbols

\* The displayed result is of a fetch that was started before another one
\* which completed earlier.
C3_Witness ==
    /\ lastOvertaken
    /\ stocks # <<>>
    /\ stocks = lastCompleted

\* C4: a rejected fetch leaves the interval registered and pollingRef as it
\* was, records the error and sets marketStatus to 'disconnected'.
C4_FailureKeepsTimer ==
    [][\A i \in 1..MaxInFlight, m \in QuoteErrors :
          FetchFail(i, m) =>
              /\ timers' = timers
              /\ pollingRef' = pollingRef
              /\ phase = "mounted" => error' = m /\ marketStatus' = "disconnected"]_vars

\* A failure is on display and the timer of the session is still registered.
C4_Witness ==
    /\ error \in QuoteErrors
    /\ marketStatus = "disconnected"
    /\ config # NoConfig
    /\ timers = {[id |-> pollingRef, cfg |-> config]}

\* C5: if from some point on the session stays active and no fetch fails,
\* then eventually the error is cleared and the status is 'connected', for
\* good.
C5_SelfHealing ==
    <>[](timers # {} /\ ~outage) => <>[](error = NoError /\ marketStatus = "connected")

\* The outage is over, its error is still on display, the timer is ticking.
C5_Witness ==
    /\ ~outage
    /\ error \in QuoteErrors
    /\ marketStatus = "disconnected"
    /\ timers # {}
    /\ inflight = <<>>

\* C6: in every reachable state handleDisconnect leaves no interval
\* registered, and running it twice gives the state that running it once
\* gives; the unmount cleanup leaves none either.
C6_DisconnectIdempotent ==
    /\ DisconnectEffect(AppState).timers = {}
    /\ DisconnectEffect(DisconnectEffect(AppState)) = DisconnectEffect(AppState)
    /\ phase = "unmounted" => timers = {}
    /\ (phase = "mounted" /\ config = NoConfig) => timers = {}

\* A session was started and then disconnected.
C6_Witness ==
    /\ phase = "mounted"
    /\ config = NoConfig
    /\ pollingRef # 0
    /\ timers = {}
    /\ DisconnectEffect(AppState) = AppState

\* ---------------------------------------------- fetchQuotes, fetchWithFailover
\* The relay that answered the call now finished (0 when none did).
AnsweredBy == IF fw_outcome.kind = "response" THEN fw_outcome.relay ELSE 0

\* A walk that starts at the relay that answered the previous call.
FirstRelayCached == IF AnsweredBy # 0 THEN AnsweredBy ELSE 1

\* The relay a call of fetchWithFailover contacts first.
FirstRelay == 1

\* The relay tried after relay k threw.
NextRelay(k) == k + 1

\* throw lastError || new Error("Unable to connect to any CORS proxy.")
Exhausted(lastError) ==
    IF lastError.thrown THEN lastError.message
    ELSE "Unable to connect to any CORS proxy."

\* A fetchQuotes that takes the live path whatever the mode.
fetchQuotesAlwaysLive(cfg) ==
    /\ fq_pc \in {"idle", "done"}
    /\ fq_cfg' = cfg
    /\ fq_prevRelay' = AnsweredBy
    /\ fq_lastError' = Undefined
    /\ fq_thrown' = <<>>
    /\ fq_received' = <<>>
    /\ fw_outcome' = NoResponse
    /\ fq_outcome' = NoResult
    /\ fq_pc' = "relay"
    /\ fq_idx' = FirstRelay
    /\ fq_attempts' = <<FirstRelay>>
    /\ UNCHANGED <<appVars, auVars, exVars, mdVars, hVars>>

\* fetchQuotes(config) up to its first await.
fetchQuotes(cfg) ==
    /\ fq_pc \in {"idle", "done"}
    /\ fq_cfg' = cfg
    /\ fq_prevRelay' = AnsweredBy
    /\ fq_lastError' = Undefined
    /\ fq_thrown' = <<>>
    /\ fq_received' = <<>>
    /\ fw_outcome' = NoResponse
    /\ fq_outcome' = NoResult
    /\ IF cfg.isDemoMode
       THEN /\ fq_pc' = "demo"
            /\ fq_idx' = 0
            /\ fq_attempts' = <<>>
       ELSE /\ fq_pc' = "relay"
            /\ fq_idx' = FirstRelay
            /\ fq_attempts' = <<FirstRelay>>
    /\ UNCHANGED <<appVars, auVars, exVars, mdVars, hVars>>

\* The 300 ms timeout of the demo path fires.
DemoResolve(draws) ==
    /\ fq_pc = "demo"
    /\ fq_pc' = "done"
    /\ fq_outcome' = [kind |-> "ok", data |-> generateDemoData(draws), message |-> ""]
    /\ UNCHANGED <<fq_cfg, fq_idx, fq_lastError, fq_attempts, fq_thrown, fq_received,
                   fw_outcome, fq_prevRelay>>
    /\ UNCHANGED <<appVars, auVars, exVars, mdVars, hVars>>

\* The loop's catch keeping the first error instead of the latest.
RelayThrowsKeepsFirst(m) ==
    /\ fq_pc = "relay"
    /\ fq_lastError' = (IF fq_lastError.thrown THEN fq_lastError
                        ELSE [thrown |-> TRUE, message |-> m])
    /\ fq_thrown' = Append(fq_thrown, m)
    /\ IF NextRelay(fq_idx) \in 1..NumRelays
       THEN /\ fq_idx' = NextRelay(fq_idx)
            /\ fq_attempts' = Append(fq_attempts, NextRelay(fq_idx))
            /\ UNCHANGED <<fq_pc, fw_outcome, fq_outcome>>
       ELSE /\ fq_pc' = "done"
            /\ fw_outcome' = [NoResponse EXCEPT !.kind = "throw",
                                                !.message = Exhausted(fq_lastError')]
            /\ fq_outcome' = QuotesCatch(Exhausted(fq_lastError'))
            /\ UNCHANGED <<fq_idx, fq_attempts>>
    /\ UNCHANGED <<fq_cfg, fq_received, fq_prevRelay>>
    /\ UNCHANGED <<appVars, auVars, exVars, mdVars, hVars>>

\* fetch(url) of the awaited relay rejects: the catch of the loop body, then
\* the next iteration or the throw after the loop and the catch of fetchQuotes.
RelayThrows(m) ==
    /\ fq_pc = "relay"
    /\ fq_lastError' = [thrown |-> TRUE, message |-> m]
    /\ fq_thrown' = Append(fq_thrown, m)
    /\ IF NextRelay(fq_idx) \in 1..NumRelays
       THEN /\ fq_idx' = NextRelay(fq_idx)
            /\ fq_attempts' = Append(fq_attempts, NextRelay(fq_idx))
            /\ UNCHANGED <<fq_pc, fw_outcome, fq_outcome>>
       ELSE /\ fq_pc' = "done"
            /\ fw_outcome' = [NoResponse EXCEPT !.kind = "throw",
                                                !.message = Exhausted(fq_lastError')]
            /\ fq_outcome' = QuotesCatch(Exhausted(fq_lastError'))
            /\ UNCHANGED <<fq_idx, fq_attempts>>
    /\ UNCHANGED <<fq_cfg, fq_received, fq_prevRelay>>
    /\ UNCHANGED <<appVars, auVars, exVars, mdVars, hVars>>

\* A walk that treats a 5xx status as a failed relay and moves on.
RelayRespondsRetries5xx(status, body) ==
    /\ fq_pc = "relay"
    /\ fq_received' = Append(fq_received, [relay |-> fq_idx, status |-> status])
    /\ IF status < 500 \/ ~(NextRelay(fq_idx) \in 1..NumRelays)
       THEN /\ fq_pc' = "done"
            /\ fw_outcome' = [kind |-> "response", relay |-> fq_idx, status |-> status,
                              body |-> body, message |-> ""]
            /\ fq_outcome' = QuotesFromResponse(status, body)
            /\ UNCHANGED <<fq_idx, fq_attempts>>
       ELSE /\ fq_idx' = NextRelay(fq_idx)
            /\ fq_attempts' = Append(fq_attempts, NextRelay(fq_idx))
            /\ UNCHANGED <<fq_pc, fw_outcome, fq_outcome>>
    /\ UNCHANGED <<fq_lastError, fq_thrown, fq_cfg, fq_prevRelay>>
    /\ UNCHANGED <<appVars, auVars, exVars, mdVars, hVars>>

\* A call that reports the last relay error although a later relay answered.
RelayRespondsLeaksError(status, body) ==
    /\ fq_pc = "relay"
    /\ fq_pc' = "done"
    /\ fw_outcome' = [kind |-> "response", relay |-> fq_idx, status |-> status,
                      body |-> body, message |-> ""]
    /\ fq_outcome' = (IF fq_lastError.thrown THEN QuotesCatch(fq_lastError.message)
                      ELSE QuotesFromResponse(status, body))
    /\ fq_received' = Append(fq_received, [relay |-> fq_idx, status |-> status])
    /\ UNCHANGED <<fq_idx, fq_attempts, fq_lastError, fq_thrown>>
    /\ UNCHANGED <<fq_cfg, fq_prevRelay>>
    /\ UNCHANGED <<appVars, auVars, exVars, mdVars, hVars>>

\* fetch(url) of the awaited relay resolves with a response, whatever its
\* status: fetchWithFailover returns it and fetchQuotes runs to its end.
RelayResponds(status, body) ==
    /\ fq_pc = "relay"
    /\ fq_pc' = "done"
    /\ fw_outcome' = [kind |-> "response", relay |-> fq_idx, status |-> status,
                      body |-> body, message |-> ""]
    /\ fq_outcome' = QuotesFromResponse(status, body)
    /\ fq_received' = Append(fq_received, [relay |-> fq_idx, status |-> status])
    /\ UNCHANGED <<fq_idx, fq_attempts, fq_lastError, fq_thrown>>
    /\ UNCHANGED <<fq_cfg, fq_prevRelay>>
    /\ UNCHANGED <<appVars, auVars, exVars, mdVars, hVars>>

RelayNext ==
    \/ \E c \in Configs : fetchQuotes(c)
    \/ \E draws \in [1..Len(NIFTY_50_SYMBOLS) -> DemoDraws] : DemoResolve(draws)
    \/ \E m \in TransportMessages : RelayThrows(m)
    \/ \E st \in Statuses, b \in Bodies : RelayResponds(st, b)

RelaySpec == Init /\ [][RelayNext]_vars

\* C7: a live call contacts the relays one at a time in list order from the
\* first, whichever relay answered the previous call; a relay is contacted
\* only after every relay before it threw, and none is contacted twice.
C7_SequentialFromTop ==
    fq_pc \in {"relay", "done"} /\ ~fq_cfg.isDemoMode =>
        /\ Len(fq_attempts) \in 1..NumRelays
        /\ \A j \in 1..Len(fq_attempts) : fq_attempts[j] = j
        /\ fq_pc = "relay" => fq_idx = Len(fq_attempts) /\ Len(fq_thrown) = Len(fq_attempts) - 1
        /\ fq_pc = "done" => Len(fq_thrown) + Len(fq_received) = Len(fq_attempts)

\* The previous call was answered by the second relay; this call has again
\* gone through the first relay before reaching the second.
C7_Witness ==
    /\ fq_prevRelay = 2
    /\ fq_pc = "relay"
    /\ fq_attempts = <<1, 2>>
    /\ Len(fq_thrown) = 1

\* C8: the first response a call receives, whatever its status, ends the
\* walk: it is what fetchWithFailover returns, it came from the relay
\* contacted last, and no relay is contacted after it.
C8_StopsAtFirstStatus ==
    fq_received # <<>> =>
        /\ Len(fq_received) = 1
        /\ fq_pc = "done"
        /\ fw_outcome.kind = "response"
        /\ fw_outcome.relay = fq_received[1].relay
        /\ fw_outcome.status = fq_received[1].status
        /\ fq_attempts[Len(fq_attempts)] = fq_received[1].relay

\* The first relay answered 500: returned as is, relays two and three untouched.
C8_Witness ==
    /\ fq_pc = "done"
    /\ fw_outcome.kind = "response"
    /\ fw_outcome.status = 500
    /\ fq_attempts = <<1>>
    /\ fq_outcome.kind = "error"

\* C9: when every relay threw, fetchWithFailover throws once, the error of
\* the relay contacted last; the generic message is thrown only when no
\* relay threw at all.
C9_LastErrorSurfaces ==
    /\ fw_outcome.kind = "throw" =>
          /\ fq_pc = "done"
          /\ Len(fq_thrown) = NumRelays
          /\ Len(fq_attempts) = NumRelays
          /\ fw_outcome.message = fq_thrown[Len(fq_thrown)]
          /\ fq_outcome.kind = "error"
          /\ fq_outcome.data = <<>>
    /\ fq_pc = "done" /\ Len(fq_thrown) = NumRelays => fw_outcome.kind = "throw"
    /\ fw_outcome.message = "Unable to connect to any CORS proxy." => fq_thrown = <<>>

\* All three relays threw, the first and the last with different errors.
C9_Witness ==
    /\ fw_outcome.kind = "throw"
    /\ Len(fq_thrown) = NumRelays
    /\ fq_thrown[1] # fq_thrown[NumRelays]

\* C10: when a relay answers 200 with a valid envelope, fetchQuotes resolves
\* with the records mapped from that relay's d, however many relays before
\* it threw.
C10_FailoverSucceeds ==
    (/\ fq_pc = "done"
     /\ fw_outcome.kind = "response"
     /\ fw_outcome.status = 200
     /\ ValidEnvelope(fw_outcome.body)) =>
        fq_outcome = [kind |-> "ok", data |-> MapQuotes(fw_outcome.body.d), message |-> ""]

\* The first relay threw, the second answered 200 with a quote.
C10_Witness ==
    /\ fq_pc = "done"
    /\ fw_outcome.kind = "response"
    /\ fw_outcome.relay = 2
    /\ fw_outcome.status = 200
    /\ Len(fq_thrown) = 1
    /\ fq_outcome.kind = "ok"
    /\ Len(fq_outcome.data) = 1
    /\ fq_outcome.data[1].ltp = 7

\* C11: a fetchQuotes call delivers nothing until it ends, and ends either
\* with one record per element of the provider's d (per table row in demo
\* mode) and no error, or with one error and no record at all.
C11_AllOrNothing ==
    /\ fq_pc # "done" => fq_outcome = NoResult
    /\ fq_pc = "done" =>
        \/ /\ fq_outcome.kind = "ok"
           /\ fq_outcome.message = ""
           /\ Len(fq_outcome.data) = IF fq_cfg.isDemoMode THEN Len(NIFTY_50_SYMBOLS)
                                     ELSE Len(fw_outcome.body.d)
        \/ /\ fq_outcome.kind = "error"
           /\ fq_outcome.message # ""
           /\ fq_outcome.data = <<>>

\* A 200 response whose d has a mappable entry followed by one without v:
\* the call fails and delivers no record.
C11_Witness ==
    /\ fq_pc = "done"
    /\ fw_outcome.kind = "response"
    /\ fw_outcome.status = 200
    /\ fw_outcome.body.json
    /\ fw_outcome.body.s = "ok"
    /\ fw_outcome.body.hasD
    /\ Len(fw_outcome.body.d) = 2
    /\ fw_outcome.body.d[1].hasV
    /\ ~fw_outcome.body.d[2].hasV
    /\ fq_outcome.kind = "error"
    /\ fq_outcome.data = <<>>

\* What the caller of fetchQuotes receives when every relay threw.
TransportFailureMessages ==
    {QuotesCatch(Exhausted([thrown |-> TRUE, message |-> m])).message : m \in TransportMessages}

\* What the caller of fetchQuotes receives for a response with status 401 or 403.
CredentialRejectedMessages ==
    {"Invalid Credentials or Token Expired", "Access Forbidden (Check Permissions)"}

\* A response with a success status and a JSON envelope whose s is not "ok"
\* or that has no d.
MalformedEnvelope ==
    /\ fw_outcome.kind = "response"
    /\ fw_outcome.status \in 200..299
    /\ fw_outcome.body.json
    /\ (fw_outcome.body.s # "ok" \/ ~fw_outcome.body.hasD)

\* C12: a live fetchQuotes call that received a success status with an
\* envelope whose s is not "ok" or without d returns no records and fails
\* with an error that is neither the one of a transport failure nor the one
\* of a rejected credential.
C12_MalformedDistinct ==
    (fq_pc = "done" /\ MalformedEnvelope) =>
        /\ fq_outcome.kind = "error"
        /\ fq_outcome.data = <<>>
        /\ fq_outcome.message \notin TransportFailureMessages \cup CredentialRejectedMessages

\* What the caller of fetchQuotes receives for the other non-success statuses.
OtherStatusMessages ==
    {QuotesCatch(ApiError(status)).message : status \in Statuses \ ((200..299) \cup {401, 403})}

\* C13: a response with status 401 or 403 makes fetchQuotes fail with a
\* credential error, which it raises neither for another non-success status
\* nor when every relay threw.
C13_CredentialDistinct ==
    /\ (fq_pc = "done" /\ fw_outcome.kind = "response" /\ fw_outcome.status \in {401, 403}) =>
          /\ fq_outcome.kind = "error"
          /\ fq_outcome.data = <<>>
          /\ fq_outcome.message \in CredentialRejectedMessages
          /\ fq_outcome.message \notin TransportFailureMessages \cup OtherStatusMessages
    /\ (fq_pc = "done" /\ fw_outcome.kind = "throw") =>
          fq_outcome.message \notin CredentialRejectedMessages
    /\ (/\ fq_pc = "done"
        /\ fw_outcome.kind = "response"
        /\ fw_outcome.status \notin (200..299) \cup {401, 403}) =>
          fq_outcome.message \notin CredentialRejectedMessages

\* The second relay answered 403 after the first threw.
C13_Witness ==
    /\ fq_pc = "done"
    /\ fw_outcome.kind = "response"
    /\ fw_outcome.status = 403
    /\ fw_outcome.relay = 2
    /\ fq_outcome.kind = "error"
    /\ fq_outcome.message = "Access Forbidden (Check Permissions)"

\* C14 as stated: the records of a successful fetchQuotes call carry pairwise
\* different symbols, all of them symbols of the table.
C14_UniqueTableSymbols ==
    (fq_pc = "done" /\ fq_outcome.kind = "ok") =>
        /\ \A i, j \in 1..Len(fq_outcome.data) :
              fq_outcome.data[i].symbol = fq_outcome.data[j].symbol => i = j
        /\ \A i \in 1..Len(fq_outcome.data) :
              \E r \in 1..Len(NIFTY_50_SYMBOLS) :
                  NIFTY_50_SYMBOLS[r].symbol = fq_outcome.data[i].symbol

\* C14, amended: in demo mode the i-th record carries the symbol of the i-th
\* table row, so each table symbol occurs once; in live mode the i-th record
\* carries the n of d[i], so a symbol occurs as often as in d, whether or not
\* the table knows it.
C14_SymbolsAsProvided ==
    (fq_pc = "done" /\ fq_outcome.kind = "ok") =>
        IF fq_cfg.isDemoMode
        THEN /\ Len(fq_outcome.data) = Len(NIFTY_50_SYMBOLS)
             /\ \A i \in 1..Len(fq_outcome.data) :
                   fq_outcome.data[i].symbol = NIFTY_50_SYMBOLS[i].symbol
             /\ \A i, j \in 1..Len(fq_outcome.data) :
                   fq_outcome.data[i].symbol = fq_outcome.data[j].symbol => i = j
        ELSE /\ Len(fq_outcome.data) = Len(fw_outcome.body.d)
             /\ \A i \in 1..Len(fq_outcome.data) :
                   fq_outcome.data[i].symbol = fw_outcome.body.d[i].n

\* A live call returned two records of one symbol that the table lacks.
C14_Witness ==
    /\ fq_pc = "done"
    /\ ~fq_cfg.isDemoMode
    /\ fq_outcome.kind = "ok"
    /\ Len(fq_outcome.data) = 2
    /\ fq_outcome.data[1].symbol = fq_outcome.data[2].symbol
    /\ \A r \in 1..Len(NIFTY_50_SYMBOLS) :
          NIFTY_50_SYMBOLS[r].symbol # fq_outcome.data[1].symbol

\* C15: the records of a successful live call are as many as the elements of
\* d and in their order; the i-th record's symbol is the n of d[i] and each
\* of its seven numbers is the like-named field of d[i].v when present and 0
\* when absent, always a number.
C15_FieldExactMapping ==
    (fq_pc = "done" /\ ~fq_cfg.isDemoMode /\ fq_outcome.kind = "ok") =>
        LET d == fw_outcome.body.d
            out == fq_outcome.data
            is(x, field) == /\ x \in Int
                            /\ field # <<>> => x = field[1]
                            /\ field = <<>> => x = 0
        IN  /\ Len(out) = Len(d)
            /\ \A i \in 1..Len(d) :
                  /\ out[i].symbol = d[i].n
                  /\ is(out[i].ltp, d[i].v.lp)
                  /\ is(out[i].change, d[i].v.ch)
                  /\ is(out[i].changePercent, d[i].v.chp)
                  /\ is(out[i].open, d[i].v.o)
                  /\ is(out[i].high, d[i].v.h)
                  /\ is(out[i].low, d[i].v.l)
                  /\ is(out[i].volume, d[i].v.v)

\* A live call mapped a quote with every field, then one of another symbol
\* with most fields absent.
C15_Witness ==
    /\ fq_pc = "done"
    /\ ~fq_cfg.isDemoMode
    /\ fq_outcome.kind = "ok"
    /\ Len(fq_outcome.data) = 2
    /\ fw_outcome.body.d[1].v = FullV
    /\ fw_outcome.body.d[2].v = SparseV
    /\ fq_outcome.data[1].symbol = "NSE:OTHER-EQ"
    /\ fq_outcome.data[2].symbol = "NSE:SBIN-EQ"
    /\ fq_outcome.data[1].high = 9
    /\ fq_outcome.data[1].low = 5
    /\ fq_outcome.data[1].change = -3
    /\ fq_outcome.data[2].ltp = 0
    /\ fq_outcome.data[2].volume = 0

\* C16: a demo-mode fetchQuotes call contacts no relay and never ends in an
\* error; it returns one record per table row, in table order, each with
\* high >= low and volume >= 0.
C16_DemoNeverFails ==
    /\ (fq_pc # "idle" /\ fq_cfg.isDemoMode) =>
          /\ fq_attempts = <<>>
          /\ fq_outcome.kind # "error"
    /\ (fq_pc = "done" /\ fq_cfg.isDemoMode) =>
          /\ fq_outcome.kind = "ok"
          /\ Len(fq_outcome.data) = Len(NIFTY_50_SYMBOLS)
          /\ \A i \in 1..Len(NIFTY_50_SYMBOLS) :
                /\ fq_outcome.data[i].symbol = NIFTY_50_SYMBOLS[i].symbol
                /\ fq_outcome.data[i].name = NIFTY_50_SYMBOLS[i].name
                /\ fq_outcome.data[i].high >= fq_outcome.data[i].low
                /\ fq_outcome.data[i].volume >= 0

\* A demo call returned a row drawn with the largest fall and no volume and a
\* row drawn with a rise.
C16_Witness ==
    /\ fq_pc = "done"
    /\ fq_cfg.isDemoMode
    /\ fq_outcome.kind = "ok"
    /\ fq_outcome.data[1].change = -2500
    /\ fq_outcome.data[1].volume = 0
    /\ fq_outcome.data[1].high > fq_outcome.data[1].low
    /\ fq_outcome.data[2].change > 0

\* ------------------------------------------------------------ Auth actions
\* exchangeAuthCode(authCode, appId, secretId) up to its first await.
exchangeAuthCode(caller, authCode, appId, secretId) ==
    /\ ex_pc' = "hash"
    /\ ex_caller' = caller
    /\ ex_args' = [authCode |-> authCode, appId |-> appId, secretId |-> secretId]
    /\ ex_idx' = 0
    /\ ex_lastError' = Undefined
    /\ ex_posts' = <<>>
    /\ ex_thrown' = <<>>
    /\ exw_outcome' = NoAuthResponse
    /\ ex_outcome' = NoToken
    /\ ex_inflight' = ex_inflight + 1

\* ConfigModal's mount effect: the generator fields take what the slot holds;
\* the effect on the fields then derives the login URL.
PrefillFromSlot ==
    /\ IF pendingAuth.present /\ pendingAuth.parsable
       THEN /\ genAppId' = pendingAuth.appId
            /\ genSecretId' = pendingAuth.secretId
            /\ redirectUri' = IF pendingAuth.redirectUri # <<>>
                              THEN pendingAuth.redirectUri
                              ELSE redirectUri
       ELSE UNCHANGED <<genAppId, genSecretId, redirectUri>>
    /\ generatedUrl' = LoginUrl(genAppId', redirectUri')
    /\ UNCHANGED <<manualAuthCode, md_error, md_left, md_writes, md_variant>>

\* The mount effects: the modal's prefill, then handleAuthRedirect up to its
\* first await, or to its end when it awaits nothing.
AuthRedirectBegins ==
    /\ au_pc = "load"
    /\ PrefillFromSlot
    /\ urlParams' = IF Truthy(urlParams.auth_code) \/ Truthy(urlParams.error)
                    THEN CleanUrl
                    ELSE urlParams
    /\ IF Truthy(urlParams.error)
       THEN /\ au_callback' = "error"
            /\ au_error' = [prefix |-> "Authorization Failed: ", detail |-> "",
                            param |-> urlParams.error[1]]
            /\ au_pc' = "done"
            /\ UNCHANGED <<au_processing, exVars>>
       ELSE IF ~Truthy(urlParams.auth_code)
       THEN /\ au_pc' = "done"
            /\ UNCHANGED <<au_callback, au_error, au_processing, exVars>>
       ELSE /\ au_callback' = "auth_code"
            /\ IF ~pendingAuth.present
               THEN /\ au_processing' = FALSE
                    /\ au_error' = [NoAuthError EXCEPT !.prefix =
                           "Session context lost. Please try the 'Generate Token' flow again."]
                    /\ au_pc' = "done"
                    /\ UNCHANGED exVars
               ELSE IF ~pendingAuth.parsable
               THEN /\ au_processing' = FALSE
                    /\ au_error' = [NoAuthError EXCEPT
                                       !.prefix = "Authentication Failed: ",
                                       !.detail = "Unexpected token < in JSON at position 0"]
                    /\ au_pc' = "done"
                    /\ UNCHANGED exVars
               ELSE IF pendingAuth.appId = <<>> \/ pendingAuth.secretId = <<>>
               THEN /\ au_processing' = FALSE
                    /\ au_error' = [NoAuthError EXCEPT
                                       !.prefix = "Authentication Failed: ",
                                       !.detail = "Missing pending authentication data."]
                    /\ au_pc' = "done"
                    /\ UNCHANGED exVars
               ELSE /\ au_processing' = TRUE
                    /\ au_pc' = "exchanging"
                    /\ exchangeAuthCode("redirect", urlParams.auth_code[1],
                                        pendingAuth.appId, pendingAuth.secretId)
                    /\ UNCHANGED au_error
    /\ UNCHANGED <<pendingAuth, au_removed, au_config, au_polling, au_loaded>>
    /\ UNCHANGED <<appVars, fqVars, hVars>>

\* crypto.subtle.digest resolved: fetchWithFailover sends the POST to the
\* first relay.
generateAppIdHashResolves ==
    /\ ex_pc = "hash"
    /\ ex_pc' = "relay"
    /\ ex_idx' = FirstRelay
    /\ ex_posts' = <<[relay |-> FirstRelay,
                      body |-> Payload(ex_args.authCode, ex_args.appId, ex_args.secretId)]>>
    /\ UNCHANGED <<ex_caller, ex_args, ex_lastError, ex_thrown, exw_outcome, ex_outcome,
                   ex_inflight>>
    /\ UNCHANGED <<appVars, fqVars, auVars, mdVars, hVars>>

\* crypto.subtle is undefined (the page is no secure context): the hash throws
\* and exchangeAuthCode rejects before any request.
generateAppIdHashThrows ==
    /\ ex_pc = "hash"
    /\ ex_pc' = "done"
    /\ ex_outcome' = ExchangeCatch("Cannot read properties of undefined (reading 'digest')")
    /\ UNCHANGED <<ex_caller, ex_args, ex_idx, ex_lastError, ex_posts, ex_thrown, exw_outcome,
                   ex_inflight>>
    /\ UNCHANGED <<appVars, fqVars, auVars, mdVars, hVars>>

\* The awaited relay threw at transport level: the same POST goes to the next
\* relay, or the walk ends and exchangeAuthCode rejects.
PostThrows(m) ==
    /\ ex_pc = "relay"
    /\ ex_lastError' = [thrown |-> TRUE, message |-> m]
    /\ ex_thrown' = Append(ex_thrown, m)
    /\ IF NextRelay(ex_idx) \in 1..NumRelays
       THEN /\ ex_idx' = NextRelay(ex_idx)
            /\ ex_posts' = Append(ex_posts,
                                  [relay |-> NextRelay(ex_idx),
                                   body |-> Payload(ex_args.authCode, ex_args.appId,
                                                    ex_args.secretId)])
            /\ UNCHANGED <<ex_pc, exw_outcome, ex_outcome>>
       ELSE /\ ex_pc' = "done"
            /\ exw_outcome' = [NoAuthResponse EXCEPT !.kind = "throw",
                                                     !.message = Exhausted(ex_lastError')]
            /\ ex_outcome' = ExchangeCatch(Exhausted(ex_lastError'))
            /\ UNCHANGED <<ex_idx, ex_posts>>
    /\ UNCHANGED <<ex_caller, ex_args, ex_inflight>>
    /\ UNCHANGED <<appVars, fqVars, auVars, mdVars, hVars>>

\* A walk that sends the POST to the next relay when the provider rejected it.
PostRespondsResendsRejected(body) ==
    /\ ex_pc = "relay"
    /\ IF body.json /\ body.s # "ok" /\ NextRelay(ex_idx) \in 1..NumRelays
       THEN /\ ex_idx' = NextRelay(ex_idx)
            /\ ex_posts' = Append(ex_posts,
                                  [relay |-> NextRelay(ex_idx),
                                   body |-> Payload(ex_args.authCode, ex_args.appId,
                                                    ex_args.secretId)])
            /\ UNCHANGED <<ex_pc, exw_outcome, ex_outcome>>
       ELSE /\ ex_pc' = "done"
            /\ exw_outcome' = [kind |-> "response", relay |-> ex_idx, body |-> body,
                               message |-> ""]
            /\ ex_outcome' = ExchangeFromResponse(body)
            /\ UNCHANGED <<ex_idx, ex_posts>>
    /\ UNCHANGED <<ex_caller, ex_args, ex_lastError, ex_thrown, ex_inflight>>
    /\ UNCHANGED <<appVars, fqVars, auVars, mdVars, hVars>>

\* The awaited relay handed back a response, whatever its status.
PostResponds(body) ==
    /\ ex_pc = "relay"
    /\ ex_pc' = "done"
    /\ exw_outcome' = [kind |-> "response", relay |-> ex_idx, body |-> body, message |-> ""]
    /\ ex_outcome' = ExchangeFromResponse(body)
    /\ UNCHANGED <<ex_caller, ex_args, ex_idx, ex_lastError, ex_posts, ex_thrown, ex_inflight>>
    /\ UNCHANGED <<appVars, fqVars, auVars, mdVars, hVars>>

\* The exchange settled and its caller resumed: every variable of the call
\* but the count of calls awaited stays as the call left it.
ExchangeReturned ==
    /\ ex_inflight' = ex_inflight - 1
    /\ UNCHANGED <<ex_pc, ex_caller, ex_args, ex_idx, ex_lastError, ex_posts, ex_thrown,
                   exw_outcome, ex_outcome>>

\* A handler that submits the same code again when the exchange failed.
AuthRedirectSettlesResubmits ==
    /\ au_pc = "exchanging"
    /\ ex_pc = "done"
    /\ IF ex_outcome.kind = "token"
       THEN /\ au_pc' = "done"
            /\ au_processing' = FALSE
            /\ pendingAuth' = NoItem
            /\ au_removed' = au_removed + 1
            /\ au_config' = [appId |-> ex_args.appId, accessToken |-> ex_outcome.token,
                             saved |-> TRUE]
            /\ au_polling' = TRUE
            /\ ExchangeReturned
       ELSE /\ ex_pc' = "hash"
            /\ ex_posts' = <<>>
            /\ ex_thrown' = <<>>
            /\ UNCHANGED <<au_pc, au_processing, pendingAuth, au_removed, au_config,
                           au_polling>>
            /\ UNCHANGED <<ex_caller, ex_args, ex_idx, ex_lastError, exw_outcome,
                           ex_outcome, ex_inflight>>
    /\ UNCHANGED <<urlParams, au_callback, au_loaded, au_error>>
    /\ UNCHANGED <<appVars, fqVars, mdVars, hVars>>

\* exchangeAuthCode settled inside handleAuthRedirect: on a token the slot is
\* removed and handleConfigSave stores the credential and starts polling; on
\* an error the catch reports it.
AuthRedirectSettles ==
    /\ au_pc = "exchanging"
    /\ ex_pc = "done"
    /\ au_pc' = "done"
    /\ au_processing' = FALSE
    /\ IF ex_outcome.kind = "token"
       THEN /\ pendingAuth' = NoItem
            /\ au_removed' = au_removed + 1
            /\ au_config' = [appId |-> ex_args.appId, accessToken |-> ex_outcome.token,
                             saved |-> TRUE]
            /\ au_polling' = TRUE
            /\ UNCHANGED au_error
       ELSE /\ au_error' = [NoAuthError EXCEPT
                               !.prefix = "Authentication Failed: ",
                               !.detail = OrElse(ex_outcome.message, "Unknown Error")]
            /\ UNCHANGED <<pendingAuth, au_removed, au_config, au_polling>>
    /\ ExchangeReturned
    /\ UNCHANGED <<urlParams, au_callback, au_loaded>>
    /\ UNCHANGED <<appVars, fqVars, mdVars, hVars>>

\* A Connect button that stays enabled while an exchange is awaited.
handleManualCodeExchangeWhileProcessing(text, appId, secretId) ==
    /\ au_pc # "load"
    /\ md_variant = "window"
    /\ ~au_config.saved
    /\ Trim(text) # <<>>
    /\ manualAuthCode' = text
    /\ genAppId' = appId
    /\ genSecretId' = secretId
    /\ generatedUrl' = LoginUrl(appId, redirectUri)
    /\ md_error' = ""
    /\ au_pc' = "manual"
    /\ au_processing' = TRUE
    /\ exchangeAuthCode("manual", FinalCode(text), Trim(appId), Trim(secretId))
    /\ UNCHANGED <<urlParams, pendingAuth, au_callback, au_removed, au_error, au_config,
                   au_polling, au_loaded>>
    /\ UNCHANGED <<redirectUri, md_left, md_writes, md_variant>>
    /\ UNCHANGED <<appVars, fqVars, hVars>>

\* The user leaves text in the paste field, appId and secretId in the App ID
\* and Secret ID fields, and clicks Connect, which the modal shows enabled
\* while no credential is saved, isProcessingAuth is false and the paste
\* field is not empty: handleManualCodeExchange, and handleExchangeToken up to
\* its await.
handleManualCodeExchange(text, appId, secretId) ==
    /\ au_pc # "load"
    /\ md_variant = "window"
    /\ ~au_config.saved
    /\ ~au_processing
    /\ text # <<>>
    /\ manualAuthCode' = text
    /\ genAppId' = appId
    /\ genSecretId' = secretId
    /\ generatedUrl' = LoginUrl(appId, redirectUri)
    /\ IF Trim(text) = <<>>
       THEN /\ md_error' = "Please paste the Auth Code or the full callback URL."
            /\ UNCHANGED <<au_pc, au_processing, exVars>>
       ELSE /\ md_error' = ""
            /\ au_pc' = "manual"
            /\ au_processing' = TRUE
            /\ exchangeAuthCode("manual", FinalCode(text), Trim(appId), Trim(secretId))
    /\ UNCHANGED <<urlParams, pendingAuth, au_callback, au_removed, au_error, au_config,
                   au_polling, au_loaded>>
    /\ UNCHANGED <<redirectUri, md_left, md_writes, md_variant>>
    /\ UNCHANGED <<appVars, fqVars, hVars>>

\* A wrapper that resets isProcessingAuth only when the exchange gave a token.
ManualExchangeSettlesKeepsSpinner ==
    /\ au_pc = "manual"
    /\ ex_pc = "done"
    /\ au_pc' = "done"
    /\ IF ex_outcome.kind = "token"
       THEN /\ au_config' = [appId |-> ex_args.appId, accessToken |-> ex_outcome.token,
                             saved |-> TRUE]
            /\ au_polling' = TRUE
            /\ au_processing' = FALSE
            /\ UNCHANGED md_error
       ELSE /\ md_error' = OrElse(ex_outcome.message, "Failed to exchange code.")
            /\ UNCHANGED <<au_config, au_polling, au_processing>>
    /\ ExchangeReturned
    /\ UNCHANGED <<urlParams, pendingAuth, au_callback, au_removed, au_error, au_loaded>>
    /\ UNCHANGED <<genAppId, genSecretId, redirectUri, generatedUrl, manualAuthCode,
                   md_left, md_writes, md_variant>>
    /\ UNCHANGED <<appVars, fqVars, hVars>>

\* exchangeAuthCode settled inside handleExchangeToken: on a token the modal
\* calls onSave, which is handleConfigSave; on an error it shows the message
\* itself.
ManualExchangeSettles ==
    /\ au_pc = "manual"
    /\ ex_pc = "done"
    /\ au_pc' = "done"
    /\ au_processing' = FALSE
    /\ IF ex_outcome.kind = "token"
       THEN /\ au_config' = [appId |-> ex_args.appId, accessToken |-> ex_outcome.token,
                             saved |-> TRUE]
            /\ au_polling' = TRUE
            /\ UNCHANGED md_error
       ELSE /\ md_error' = OrElse(ex_outcome.message, "Failed to exchange code.")
            /\ UNCHANGED <<au_config, au_polling>>
    /\ ExchangeReturned
    /\ UNCHANGED <<urlParams, pendingAuth, au_callback, au_removed, au_error, au_loaded>>
    /\ UNCHANGED <<genAppId, genSecretId, redirectUri, generatedUrl, manualAuthCode,
                   md_left, md_writes, md_variant>>
    /\ UNCHANGED <<appVars, fqVars, hVars>>

\* The page loads of the flows that end in the modal: a plain URL, a callback
\* with a code and a callback with an error.
AuthUrls ==
    {CleanUrl, [CleanUrl EXCEPT !.auth_code = <<CODE1>>], [CleanUrl EXCEPT !.error = <<DENIED>>]}

\* What the user may leave in the paste, App ID and Secret ID fields before
\* Connect: blanks; a padded code with a padded id and a secret; a text with an
\* empty auth_code parameter and a blank id; a callback URL with no secret.
ManualInputs ==
    {<<<<" ">>, <<" ">>, <<>>>>,
     <<<<" ">> \o CODE2 \o <<" ">>, <<" ">> \o APP2 \o <<" ">>, SECRET1>>,
     <<<<"a", "u", "t", "h", "_", "c", "o", "d", "e", "=">>, <<" ">>, SECRET1>>,
     <<<<"h", "t", "t", "p", ":", "/", "/", "h", "/", "?", "s", "=", "o", "k", "&", "a", "u", "t", "h", "_", "c", "o", "d", "e", "=", "c", "1">>, <<" ">> \o APP2 \o <<" ">>, <<>>>>}

AuthInit ==
    /\ AppInit
    /\ FqIdle
    /\ \E url \in AuthUrls, item \in PendingItems : AuthLoaded(url, item)
    /\ ModalIdle
    /\ HashIdle

AuthNext ==
    \/ AuthRedirectBegins
    \/ generateAppIdHashResolves
    \/ generateAppIdHashThrows
    \/ \E m \in TransportMessages : PostThrows(m)
    \/ \E body \in AuthBodies : PostResponds(body)
    \/ AuthRedirectSettles
    \/ \E in \in ManualInputs : handleManualCodeExchange(in[1], in[2], in[3])
    \/ ManualExchangeSettles

AuthSpec == AuthInit /\ [][AuthNext]_vars

\* The page load alone: every URL and every slot content, and the mount
\* effects with the exchange they may start.
CallbackInit ==
    /\ AppInit
    /\ FqIdle
    /\ \E url \in UrlParams, item \in PendingItems : AuthLoaded(url, item)
    /\ ModalIdle
    /\ HashIdle

CallbackNext ==
    \/ AuthRedirectBegins
    \/ generateAppIdHashResolves
    \/ generateAppIdHashThrows
    \/ \E m \in TransportMessages : PostThrows(m)
    \/ \E body \in AuthBodies : PostResponds(body)
    \/ AuthRedirectSettles

CallbackSpec == CallbackInit /\ [][CallbackNext]_vars

\* ------------------------------------------------------ ConfigModal actions
\* The page went to the provider's login page.
Navigated == \E i \in 1..Len(md_left) : md_left[i].kind = "href"

\* The modal is rendered with its form: no credential is saved, the page is
\* still there, and isProcessingAuth is false.
ModalShown ==
    /\ au_pc # "load"
    /\ ~au_config.saved
    /\ ~au_processing
    /\ ~Navigated

\* onChange of the App ID field, and the effect that derives the login URL.
setGenAppId(v) ==
    /\ ModalShown
    /\ genAppId' = v
    /\ generatedUrl' = LoginUrl(v, redirectUri)
    /\ UNCHANGED <<genSecretId, redirectUri, manualAuthCode, md_error, md_left, md_writes,
                   md_variant>>
    /\ UNCHANGED <<appVars, fqVars, auVars, exVars, hVars>>

\* onChange of the Secret ID field.
setGenSecretId(v) ==
    /\ ModalShown
    /\ genSecretId' = v
    /\ UNCHANGED <<genAppId, redirectUri, generatedUrl, manualAuthCode, md_error, md_left,
                   md_writes, md_variant>>
    /\ UNCHANGED <<appVars, fqVars, auVars, exVars, hVars>>

\* onChange of the Redirect URI field, and the effect that derives the login URL.
setRedirectUri(v) ==
    /\ ModalShown
    /\ redirectUri' = v
    /\ generatedUrl' = LoginUrl(genAppId, v)
    /\ UNCHANGED <<genAppId, genSecretId, manualAuthCode, md_error, md_left, md_writes,
                   md_variant>>
    /\ UNCHANGED <<appVars, fqVars, auVars, exVars, hVars>>

\* A handler that tests the fields as typed, not trimmed.
AuthorizeUntrimmedTest(kind) ==
    /\ ModalShown
    /\ generatedUrl # NoUrl
    /\ Len(md_writes) < MaxWrites
    /\ IF genAppId = <<>> \/ genSecretId = <<>> \/ redirectUri = <<>>
       THEN /\ md_error' = "All fields are required to generate token."
            /\ UNCHANGED <<pendingAuth, md_left, md_writes>>
       ELSE /\ pendingAuth' = PendingItem(Trim(genAppId), Trim(genSecretId), Trim(redirectUri))
            /\ md_writes' = Append(md_writes, pendingAuth')
            /\ md_left' = Append(md_left, [kind |-> kind, url |-> generatedUrl[1],
                                           slot |-> pendingAuth'])
            /\ UNCHANGED md_error
    /\ UNCHANGED <<genAppId, genSecretId, redirectUri, generatedUrl, manualAuthCode, md_variant>>
    /\ UNCHANGED <<au_pc, urlParams, au_callback, au_removed, au_error, au_processing,
                   au_config, au_polling, au_loaded>>
    /\ UNCHANGED <<appVars, fqVars, exVars, hVars>>

\* The click on the button that leads to the provider's login page, enabled
\* while generatedUrl is not empty: the trimmed fields are tested, written to
\* the slot, and then the login URL is opened in the way of the variant.
Authorize(kind) ==
    /\ ModalShown
    /\ generatedUrl # NoUrl
    /\ Len(md_writes) < MaxWrites
    /\ IF Trim(genAppId) = <<>> \/ Trim(genSecretId) = <<>> \/ Trim(redirectUri) = <<>>
       THEN /\ md_error' = "All fields are required to generate token."
            /\ UNCHANGED <<pendingAuth, md_left, md_writes>>
       ELSE /\ pendingAuth' = PendingItem(Trim(genAppId), Trim(genSecretId), Trim(redirectUri))
            /\ md_writes' = Append(md_writes, pendingAuth')
            /\ md_left' = IF generatedUrl # NoUrl
                          THEN Append(md_left, [kind |-> kind, url |-> generatedUrl[1],
                                                slot |-> pendingAuth'])
                          ELSE md_left
            /\ UNCHANGED md_error
    /\ UNCHANGED <<genAppId, genSecretId, redirectUri, generatedUrl, manualAuthCode, md_variant>>
    /\ UNCHANGED <<au_pc, urlParams, au_callback, au_removed, au_error, au_processing,
                   au_config, au_polling, au_loaded>>
    /\ UNCHANGED <<appVars, fqVars, exVars, hVars>>

\* components/ConfigModal.tsx: window.location.href = generatedUrl.
handleAuthorize ==
    /\ md_variant = "href"
    /\ Authorize("href")

\* The other ConfigModal: window.open(generatedUrl, '_blank', ...).
openAuthWindow ==
    /\ md_variant = "window"
    /\ Authorize("window")

\* A page load without callback parameters, for either ConfigModal and a slot
\* that is empty or left by an earlier flow.
ModalInit ==
    /\ AppInit
    /\ FqIdle
    /\ \E item \in {NoItem, PendingItem(APP2, SECRET1, ORIGIN)} : AuthLoaded(CleanUrl, item)
    /\ genAppId = <<>>
    /\ genSecretId = <<>>
    /\ redirectUri = ORIGIN
    /\ generatedUrl = NoUrl
    /\ manualAuthCode = <<>>
    /\ md_error = ""
    /\ md_left = <<>>
    /\ md_writes = <<>>
    /\ md_variant \in {"href", "window"}
    /\ HashIdle

ModalNext ==
    \/ AuthRedirectBegins
    \/ \E v \in AppIdTexts : setGenAppId(v)
    \/ \E v \in SecretTexts : setGenSecretId(v)
    \/ \E v \in UriTexts : setRedirectUri(v)
    \/ handleAuthorize
    \/ openAuthWindow

ModalSpec == ModalInit /\ [][ModalNext]_vars

\* C17 as stated: one exchangeAuthCode call issues exactly one POST carrying
\* the authorization code, whatever the relays do.
C17_ExactlyOnePost ==
    /\ Len(ex_posts) <= 1
    /\ (ex_pc = "done" /\ exw_outcome.kind # "none") => Len(ex_posts) = 1

\* C17, amended: one exchangeAuthCode call makes one walk down the relay
\* list. It sends the same POST to the relays in list order, to each at most
\* once; it sends it again only after the relay before threw at transport
\* level, never after a response, and it does not start the list again.
C17_OneFailoverWalk ==
    /\ Len(ex_posts) <= NumRelays
    /\ \A i \in 1..Len(ex_posts) :
          /\ ex_posts[i].relay = i
          /\ ex_posts[i].body.code = ex_args.authCode
          /\ ex_posts[i].body = ex_posts[1].body
    /\ ex_pc \in {"idle", "hash"} => ex_posts = <<>>
    /\ ex_pc = "relay" => Len(ex_posts) = Len(ex_thrown) + 1
    /\ (ex_pc = "done" /\ exw_outcome.kind = "response") =>
          /\ Len(ex_posts) = Len(ex_thrown) + 1
          /\ exw_outcome.relay = Len(ex_posts)
    /\ (ex_pc = "done" /\ exw_outcome.kind = "throw") =>
          /\ Len(ex_posts) = NumRelays
          /\ Len(ex_thrown) = NumRelays
    /\ (ex_pc = "done" /\ exw_outcome.kind = "none") => ex_posts = <<>>

\* The code went to all three relays: two threw and the third handed back
\* the provider's rejection, after which the call ended.
C17_Witness ==
    /\ ex_pc = "done"
    /\ Len(ex_posts) = 3
    /\ Len(ex_thrown) = 2
    /\ exw_outcome.kind = "response"
    /\ exw_outcome.relay = 3
    /\ exw_outcome.body.s = "error"
    /\ ex_posts[3].body.code = CODE1

\* C18: exchangeAuthCode returns a token only for a response whose s is "ok",
\* and then its access_token as it came; for another s it fails with the
\* response's message when there is one and with the fallback message
\* otherwise.
C18_TokenOnlyWhenOk ==
    /\ ex_outcome.kind = "token" =>
          /\ exw_outcome.kind = "response"
          /\ exw_outcome.body.json
          /\ exw_outcome.body.s = "ok"
          /\ ex_outcome.token = exw_outcome.body.access_token
    /\ (ex_pc = "done" /\ exw_outcome.kind = "response" /\ exw_outcome.body.json) =>
          IF exw_outcome.body.s = "ok"
          THEN ex_outcome.kind = "token"
          ELSE /\ ex_outcome.kind = "error"
               /\ ex_outcome.token = <<>>
               /\ ex_outcome.message = IF exw_outcome.body.message # ""
                                       THEN exw_outcome.body.message
                                       ELSE "Failed to validate auth code"

\* What the caller of exchangeAuthCode receives when every relay threw.
ExchangeTransportMessages ==
    {ExchangeCatch(Exhausted([thrown |-> TRUE, message |-> m])).message : m \in TransportMessages}

\* C19: the error exchangeAuthCode raises for a response whose s is not "ok"
\* is none of the errors it raises when no relay could be reached.
C19_RejectionDistinct ==
    (/\ ex_pc = "done"
     /\ exw_outcome.kind = "response"
     /\ exw_outcome.body.json
     /\ exw_outcome.body.s # "ok") =>
        /\ ex_outcome.kind = "error"
        /\ ex_outcome.message \notin ExchangeTransportMessages

\* C20: the slot is removed at most once, and once handleAuthRedirect has
\* processed a URL with an auth_code the slot is empty, whether the exchange
\* gave a token or an error.
C20_SlotClearedOnce ==
    /\ au_removed <= 1
    /\ (au_pc = "done" /\ au_callback = "auth_code") => ~pendingAuth.present

\* C26: the table is empty or holds the batch of a fetch issued with the
\* credential now active; without an active credential it is empty and the
\* status is 'disconnected'.
C26_SnapshotOfActiveCredential ==
    /\ stocks # <<>> =>
          /\ config # NoConfig
          /\ \A i \in 1..Len(stocks) : stocks[i].cfg = config
    /\ config = NoConfig =>
          /\ stocks = <<>>
          /\ marketStatus = "disconnected"

\* C27: a rejected fetch sets error, marketStatus and isLoading and nothing
\* else of the App's state: stocks and lastUpdated stay as they were.
C27_FailureKeepsSnapshot ==
    [][\A i \in 1..MaxInFlight, m \in QuoteErrors :
          FetchFail(i, m) =>
              /\ stocks' = stocks
              /\ lastUpdated' = lastUpdated
              /\ config' = config
              /\ isProcessingAuth' = isProcessingAuth
              /\ phase = "mounted" =>
                    /\ error' = m
                    /\ marketStatus' = "disconnected"
                    /\ isLoading' = FALSE]_vars

\* A fetch failed after an earlier one succeeded: the batch of the earlier
\* one and its date are still shown beside the error.
C27_Witness ==
    /\ phase = "mounted"
    /\ error \in QuoteErrors
    /\ marketStatus = "disconnected"
    /\ ~isLoading
    /\ stocks # <<>>
    /\ lastUpdated # 0
    /\ stocks = lastCompleted

\* C24: a demo-mode call waits for its timer only: it contacts no relay and
\* receives nothing; a live call walks the relays, and the records it returns
\* are those mapped from the response it received, never generated ones.
C24_ModesExclusive ==
    /\ (fq_pc # "idle" /\ fq_cfg.isDemoMode) =>
          /\ fq_pc \in {"demo", "done"}
          /\ fq_idx = 0
          /\ fq_attempts = <<>>
          /\ fq_thrown = <<>>
          /\ fq_received = <<>>
          /\ fw_outcome = NoResponse
    /\ (fq_pc # "idle" /\ ~fq_cfg.isDemoMode) =>
          /\ fq_pc \in {"relay", "done"}
          /\ fq_attempts # <<>>
          /\ fq_outcome.kind = "ok" =>
                /\ fw_outcome.kind = "response"
                /\ fq_outcome.data = MapQuotes(fw_outcome.body.d)

\* A demo call finished right after a live call that the first relay had
\* answered.
C24_Witness ==
    /\ fq_pc = "done"
    /\ fq_cfg.isDemoMode
    /\ fq_prevRelay = 1
    /\ fq_outcome.kind = "ok"
    /\ fq_attempts = <<>>

\* ------------------------------------------------------ Hasher invocations
\* An invocation of generateAppIdHash resolved.
HashResolves(k) ==
    /\ h_out' = [h_out EXCEPT ![k] = appIdHash(h_in[k][1], h_in[k][2])]
    /\ UNCHANGED h_in
    /\ UNCHANGED <<appVars, fqVars, auVars, exVars, mdVars>>

\* Two invocations, each with an application id and a secret.
HashInit ==
    /\ AppInit
    /\ FqIdle
    /\ AuthLoaded(CleanUrl, NoItem)
    /\ ModalIdle
    /\ h_in \in [1..2 -> HashedIds \X HashedSecrets]
    /\ h_out = [k \in 1..2 |-> <<>>]

HashNext == \E k \in 1..2 : HashResolves(k)

HashSpec == HashInit /\ [][HashNext]_vars

\* C23: what an invocation resolves to is 64 characters, each a digit or one
\* of a to f; it is the SHA-256 digest of the id, a colon and the secret, as
\* the digests of "APP1:SECRET1" and of ":" show; two invocations with the
\* same id and secret resolve to the same text, and two that differ in the id
\* alone or in the secret alone resolve to different texts.
C23_HasherDeterministic ==
    /\ \A k \in 1..2 :
          h_out[k] # <<>> =>
              /\ Len(h_out[k]) = 64
              /\ \A i \in 1..64 :
                    h_out[k][i] \in {"0", "1", "2", "3", "4", "5", "6", "7", "8", "9",
                                     "a", "b", "c", "d", "e", "f"}
              /\ h_in[k] = <<APP1, SECRET1>> =>
                    h_out[k] =
                        <<"c", "1", "9", "6", "6", "3", "9", "4", "9", "d", "6", "4", "d", "5", "5", "b",
                 "c", "2", "5", "8", "7", "a", "3", "8", "1", "3", "7", "f", "1", "5", "9", "a",
                 "6", "c", "e", "3", "e", "a", "6", "3", "c", "4", "e", "1", "6", "a", "e", "e",
                 "e", "4", "8", "e", "4", "e", "b", "8", "2", "9", "4", "b", "c", "c", "e", "3">>
              /\ h_in[k] = <<<<>>, <<>>>> =>
                    h_out[k] =
                        <<"e", "7", "a", "c", "0", "7", "8", "6", "6", "6", "8", "e", "0", "f", "f", "0",
                 "f", "0", "2", "b", "6", "2", "b", "d", "0", "4", "f", "4", "5", "f", "f", "6",
                 "3", "6", "f", "d", "8", "2", "d", "b", "6", "3", "b", "1", "1", "0", "4", "6",
                 "0", "1", "c", "9", "7", "5", "d", "c", "0", "0", "5", "f", "3", "a", "6", "7">>
    /\ (h_out[1] # <<>> /\ h_out[2] # <<>>) =>
          /\ h_in[1] = h_in[2] => h_out[1] = h_out[2]
          /\ (h_in[1][1] # h_in[2][1] /\ h_in[1][2] = h_in[2][2]) => h_out[1] # h_out[2]
          /\ (h_in[1][1] = h_in[2][1] /\ h_in[1][2] # h_in[2][2]) => h_out[1] # h_out[2]

\* Both invocations resolved, one for APP1 with SECRET1 and one for APP1 with
\* SECRET2.
C23_Witness ==
    /\ h_in[1] = <<APP1, SECRET1>>
    /\ h_in[2] = <<APP1, SECRET2>>
    /\ Len(h_out[1]) = 64
    /\ Len(h_out[2]) = 64

\* C21: at most one exchangeAuthCode call is awaited at any time, and one is
\* awaited exactly while handleAuthRedirect or handleExchangeToken waits for
\* it; a call starts only when none is awaited.
C21_OneExchangeInFlight ==
    /\ ex_inflight \in {0, 1}
    /\ ex_inflight = 1 <=> au_pc \in {"exchanging", "manual"}
    /\ ex_inflight = 1 <=> ex_pc \in {"hash", "relay", "done"} /\ au_processing

\* The exchange of the redirect handler failed and the user's manual exchange
\* is now awaited at the second relay.
C21_Witness ==
    /\ au_pc = "manual"
    /\ au_callback = "auth_code"
    /\ au_error.prefix = "Authentication Failed: "
    /\ ex_caller = "manual"
    /\ ex_pc = "relay"
    /\ ex_idx = 2
    /\ ex_inflight = 1

\* C22: the step in which a caller receives the failure of exchangeAuthCode
\* saves no credential and starts no polling, sends nothing more, resets
\* isProcessingAuth and shows the error, in the App for the redirect handler
\* and in the modal for the manual exchange; and after a call has ended a
\* new call starts only by the user's Connect click.
C22_FailedExchangeNoSession ==
    [][/\ (ex_inflight' < ex_inflight /\ ex_outcome.kind = "error") =>
             /\ au_config' = NoAuthConfig
             /\ au_polling' = FALSE
             /\ ~au_processing'
             /\ au_pc' = "done"
             /\ ex_pc' = "done"
             /\ ex_posts' = ex_posts
             /\ ex_inflight' = 0
             /\ ex_caller = "redirect" =>
                   /\ au_error'.prefix = "Authentication Failed: "
                   /\ au_error'.detail = ex_outcome.message
             /\ ex_caller = "manual" =>
                   /\ md_error' # ""
                   /\ md_error' \in {ex_outcome.message, "Failed to exchange code."}
       /\ (ex_pc = "done" /\ ex_pc' # "done") =>
             \E in \in ManualInputs : handleManualCodeExchange(in[1], in[2], in[3])]_vars

\* The redirect handler's exchange was rejected by the provider: the error is
\* shown, nothing is saved and nothing polls.
C22_Witness ==
    /\ au_pc = "done"
    /\ ex_caller = "redirect"
    /\ ex_pc = "done"
    /\ ex_outcome.kind = "error"
    /\ exw_outcome.body.message = "invalid auth code"
    /\ au_error.detail = "invalid auth code"
    /\ ~au_config.saved
    /\ ~au_polling
    /\ ex_inflight = 0

\* C28 as stated: once the mount effect has run, an exchange was started only
\* for a URL with an auth_code parameter, without an error parameter, and a
\* slot with a non-empty appId and secretId, and then the URL is clean;
\* otherwise nothing was exchanged or saved, and an error is shown when the
\* URL had one of the parameters.
C28_ExchangeOnlyForCompleteCallback ==
    au_pc # "load" =>
        LET url == au_loaded.url
            item == au_loaded.item
            complete == /\ url.auth_code # <<>>
                        /\ url.error = <<>>
                        /\ item.present
                        /\ item.parsable
                        /\ item.appId # <<>>
                        /\ item.secretId # <<>>
        IN  /\ ex_pc # "idle" => complete /\ urlParams = CleanUrl
            /\ ~complete =>
                  /\ ex_pc = "idle"
                  /\ ~au_config.saved
                  /\ ~au_polling
                  /\ (url.auth_code # <<>> \/ url.error # <<>>) =>
                        /\ au_error # NoAuthError
                        /\ urlParams = CleanUrl

\* C28, amended: a parameter counts only when its value is not empty. An
\* exchange is started exactly for a URL with a non-empty auth_code, no
\* non-empty error and a slot whose JSON holds a non-empty appId and secretId,
\* with the code of the URL and the ids of the slot, and the URL is clean by
\* then; otherwise nothing is exchanged or saved, and when the URL had a
\* non-empty parameter an error is shown and the URL is clean; a URL whose
\* parameters are absent or empty is left as it is and no error is shown.
C28_CallbackGuard ==
    au_pc # "load" =>
        LET url == au_loaded.url
            item == au_loaded.item
            hasCode == url.auth_code \notin {<<>>, <<<<>>>>}
            hasError == url.error \notin {<<>>, <<<<>>>>}
            complete == /\ hasCode
                        /\ ~hasError
                        /\ item.present
                        /\ item.parsable
                        /\ item.appId # <<>>
                        /\ item.secretId # <<>>
        IN  /\ ex_pc # "idle" <=> complete
            /\ complete =>
                  /\ urlParams = CleanUrl
                  /\ ex_caller = "redirect"
                  /\ ex_args = [authCode |-> url.auth_code[1], appId |-> item.appId,
                                secretId |-> item.secretId]
            /\ ~complete =>
                  /\ au_pc = "done"
                  /\ ~au_processing
                  /\ ~au_config.saved
                  /\ ~au_polling
                  /\ (hasCode \/ hasError) =>
                        /\ au_error # NoAuthError
                        /\ urlParams = CleanUrl
                  /\ ~(hasCode \/ hasError) =>
                        /\ au_error = NoAuthError
                        /\ urlParams = url

\* The URL had a code and the slot an appId without a secretId: the handler
\* reported the missing data and exchanged nothing.
C28_Witness ==
    /\ au_pc = "done"
    /\ au_loaded.url = [CleanUrl EXCEPT !.auth_code = <<CODE1>>]
    /\ au_loaded.item = PendingItem(APP1, <<>>, ORIGIN)
    /\ au_error.detail = "Missing pending authentication data."
    /\ urlParams = CleanUrl
    /\ ex_pc = "idle"

\* C29: every exchangeAuthCode call has a non-empty authorization code, a
\* non-empty appId and a non-empty secretId.
C29_ArgumentsNonEmpty ==
    ex_pc # "idle" =>
        /\ ex_args.authCode # <<>>
        /\ ex_args.appId # <<>>
        /\ ex_args.secretId # <<>>

\* C30: isProcessingAuth is TRUE exactly while an exchangeAuthCode call is
\* awaited, and FALSE once the mount effect and every exchange have ended,
\* whatever the slot held and however the exchange ended.
C30_ProcessingWhileExchanging ==
    /\ au_processing <=> ex_inflight > 0
    /\ au_pc = "done" => ~au_processing
    /\ au_pc = "load" => ~au_processing

\* The slot held text that is no JSON, so the redirect handler gave up, and
\* the manual exchange that followed found no relay: neither left the spinner.
C30_Witness ==
    /\ au_pc = "done"
    /\ au_loaded.item = Unparsable
    /\ au_error.detail = "Unexpected token < in JSON at position 0"
    /\ ex_caller = "manual"
    /\ ex_pc = "done"
    /\ exw_outcome.kind = "throw"
    /\ md_error # ""
    /\ ~au_processing

====
